---- MODULE Spec2Model ----
(***************************************************************************)
(* The Graph Store of the social network (src/social_network.py): a        *)
(* SocialNetwork object owning one networkx DiGraph, its mutation methods  *)
(* and its queries.                                                        *)
(*                                                                         *)
(* The DiGraph is the record self.graph = [node, adj]:                     *)
(*   node : user handle -> attribute dictionary   (DiGraph._node)          *)
(*   adj  : <<source, target>> -> attribute dictionary (DiGraph._succ;     *)
(*          _pred shares the same dictionaries)                            *)
(* A dictionary is a function from a finite set of keys to values.         *)
(* last is the record of the latest call: its name, whether it raised     *)
(* ValueError, and what it returned.                                       *)
(***************************************************************************)
EXTENDS Integers, Sequences, FiniteSets, TLC

VARIABLES graph, last

vars == <<graph, last>>

(* ------------------------------ bounds -------------------------------- *)

\* The largest number of relationships a run of Spec or SpecUsers builds.
MaxEdges == 2

\* The largest number of relationships a run of SpecPath or SpecRecommend
\* builds.
MaxQueryEdges == 4

\* The largest number of iterations simulate_information_spread is called
\* with in SpecSpread.
MaxIterations == 4

\* The handles the calls of SpecPath and SpecRecommend are made with.
Handles == {"A", "B", "C", "D"}

\* The handles the calls of Spec and SpecUsers, which vary the attributes,
\* are made with.
AttrHandles == {"A", "B", "C"}

(* --------------------------- dictionaries ----------------------------- *)

EmptyDict == [k \in {} |-> 0]

\* dict.update(other) / d[k] = v for every item of other: the keys of other
\* take other's values, every other key of d keeps its value.
DictUpdate(d, other) ==
    [k \in (DOMAIN d) \cup (DOMAIN other) |->
        IF k \in DOMAIN other THEN other[k] ELSE d[k]]

\* {k: f[k] for k in keys}: the dictionary built item by item.
RECURSIVE DictItems(_, _)
DictItems(f, keys) ==
    IF keys = {}
    THEN EmptyDict
    ELSE LET k == CHOOSE x \in keys : TRUE
         IN  (k :> f[k]) @@ DictItems(f, keys \ {k})

Dict(f) == DictItems(f, DOMAIN f)

\* An optional argument is the empty set (None) or a singleton.
None == {}
Some(d) == {d}
TheValue(opt) == CHOOSE d \in opt : TRUE

(* ------------------------- networkx.DiGraph --------------------------- *)

EmptyGraph == [node |-> EmptyDict, adj |-> EmptyDict]

Nodes(G) == DOMAIN G.node
Edges(G) == DOMAIN G.adj

\* user in self.graph
HasNode(G, n) == n \in Nodes(G)

\* self.graph.has_edge(u, v): False when an endpoint is unknown
HasEdge(G, u, v) == <<u, v>> \in Edges(G)

\* self.graph.successors(n)
Successors(G, n) == {v \in Nodes(G) : <<n, v>> \in Edges(G)}

\* A mutant of AddNode: an existing node's dictionary is replaced.
AddNode_Replaces(G, n, attr) ==
    [G EXCEPT !.node =
        [m \in Nodes(G) \cup {n} |-> IF m = n THEN attr ELSE G.node[m]]]

\* self.graph.add_node(n, **attr): a new node gets a fresh dictionary, an
\* existing node's dictionary is updated.
AddNode(G, n, attr) ==
    [G EXCEPT !.node =
        [m \in Nodes(G) \cup {n} |->
            IF m = n
            THEN DictUpdate(IF HasNode(G, n) THEN G.node[n] ELSE EmptyDict, attr)
            ELSE G.node[m]]]

\* A mutant of RemoveNode: the edges into the node are left behind.
RemoveNode_KeepsInEdges(G, n) ==
    [node |-> [m \in Nodes(G) \ {n} |-> G.node[m]],
     adj  |-> [e \in {f \in Edges(G) : f[1] # n} |-> G.adj[e]]]

\* A mutant of RemoveNode: the edges out of the node stay in the adjacency
\* dictionary.
RemoveNode_KeepsOutEdges(G, n) ==
    [node |-> [m \in Nodes(G) \ {n} |-> G.node[m]],
     adj  |-> [e \in {f \in Edges(G) : f[2] # n \/ f[1] = n} |-> G.adj[e]]]

\* A mutant of RemoveNode: every edge of the graph goes with the node.
RemoveNode_DropsAllEdges(G, n) ==
    [node |-> [m \in Nodes(G) \ {n} |-> G.node[m]],
     adj  |-> EmptyDict]

\* self.graph.remove_node(n): the node and every edge into or out of it.
RemoveNode(G, n) ==
    [node |-> [m \in Nodes(G) \ {n} |-> G.node[m]],
     adj  |-> [e \in {f \in Edges(G) : f[1] # n /\ f[2] # n} |-> G.adj[e]]]

\* A mutant of AddEdge: the edge is added in both directions, as an
\* undirected graph would.
AddEdge_Undirected(G, u, v, attr) ==
    [node |-> [m \in Nodes(G) \cup {u, v} |->
                  IF HasNode(G, m) THEN G.node[m] ELSE EmptyDict],
     adj  |-> [e \in Edges(G) \cup {<<u, v>>, <<v, u>>} |->
                  IF e \in {<<u, v>>, <<v, u>>}
                  THEN DictUpdate(IF e \in Edges(G) THEN G.adj[e] ELSE EmptyDict,
                                  attr)
                  ELSE G.adj[e]]]

\* A mutant of AddEdge: an existing edge's dictionary is replaced.
AddEdge_Replaces(G, u, v, attr) ==
    [node |-> [m \in Nodes(G) \cup {u, v} |->
                  IF HasNode(G, m) THEN G.node[m] ELSE EmptyDict],
     adj  |-> [e \in Edges(G) \cup {<<u, v>>} |->
                  IF e = <<u, v>> THEN attr ELSE G.adj[e]]]

\* self.graph.add_edge(u, v, **attr): unknown endpoints are created with no
\* attributes; an existing edge's dictionary is updated.
AddEdge(G, u, v, attr) ==
    [node |-> [m \in Nodes(G) \cup {u, v} |->
                  IF HasNode(G, m) THEN G.node[m] ELSE EmptyDict],
     adj  |-> [e \in Edges(G) \cup {<<u, v>>} |->
                  IF e = <<u, v>>
                  THEN DictUpdate(IF HasEdge(G, u, v) THEN G.adj[e] ELSE EmptyDict,
                                  attr)
                  ELSE G.adj[e]]]

\* self.graph.remove_edge(u, v)
RemoveEdge(G, u, v) ==
    [G EXCEPT !.adj = [e \in Edges(G) \ {<<u, v>>} |-> G.adj[e]]]

(* --------------------------- SocialNetwork ---------------------------- *)

\* The record of a mutation call: it returns nothing, or raises ValueError.
Call(op, raised) ==
    [op |-> op, args |-> <<>>, raised |-> raised, ret |-> [kind |-> "none"]]

\* The record of a query call, with its arguments and what it returned.
Query(op, args, raised, ret) ==
    [op |-> op, args |-> args, raised |-> raised, ret |-> ret]

\* A mutant of UserAttributes: no name is set when none is given.
UserAttributes_NoDefaultName(user, attributes) ==
    IF attributes = None THEN EmptyDict ELSE TheValue(attributes)

\* add_user, lines 19-24: the attributes as passed to add_node.
UserAttributes(user, attributes) ==
    LET given == IF attributes = None THEN EmptyDict ELSE TheValue(attributes)
    IN  IF "name" \notin DOMAIN given
        THEN DictUpdate(given, [name |-> user])
        ELSE given

add_user(user, attributes) ==
    /\ last' = Call("add_user", FALSE)
    /\ graph' = AddNode(graph, user, UserAttributes(user, attributes))

remove_user(user) ==
    IF HasNode(graph, user)
    THEN /\ last' = Call("remove_user", FALSE)
         /\ graph' = RemoveNode(graph, user)
    ELSE /\ last' = Call("remove_user", TRUE)
         /\ graph' = graph

\* add_friendship, lines 60-62
DefaultFriendship == [type |-> "Friend", strength |-> 5]

FriendshipAttributes(attributes) ==
    IF attributes = None THEN DefaultFriendship ELSE TheValue(attributes)

\* A mutant of FriendshipEndpointsKnown: the target is not checked.
FriendshipEndpointsKnown_SourceOnly(G, user1, user2) ==
    HasNode(G, user1)

\* add_friendship, lines 55-58: the two checks that raise ValueError.
FriendshipEndpointsKnown(G, user1, user2) ==
    HasNode(G, user1) /\ HasNode(G, user2)

add_friendship(user1, user2, attributes) ==
    IF FriendshipEndpointsKnown(graph, user1, user2)
    THEN /\ last' = Call("add_friendship", FALSE)
         /\ graph' = AddEdge(graph, user1, user2, FriendshipAttributes(attributes))
    ELSE /\ last' = Call("add_friendship", TRUE)
         /\ graph' = graph

remove_friendship(user1, user2) ==
    IF HasEdge(graph, user1, user2)
    THEN /\ last' = Call("remove_friendship", FALSE)
         /\ graph' = RemoveEdge(graph, user1, user2)
    ELSE /\ last' = Call("remove_friendship", TRUE)
         /\ graph' = graph

\* update_user_attributes, lines 201-202: self.graph.nodes[user][key] = value
SetNodeAttributes(G, user, attributes) ==
    [G EXCEPT !.node[user] = DictUpdate(G.node[user], attributes)]

update_user_attributes(user, attributes) ==
    IF HasNode(graph, user)
    THEN /\ last' = Call("update_user_attributes", FALSE)
         /\ graph' = SetNodeAttributes(graph, user, attributes)
    ELSE /\ last' = Call("update_user_attributes", TRUE)
         /\ graph' = graph

(* ------------------------------ queries ------------------------------- *)

\* Breadth-first search from the nodes of frontier: the sequence of levels,
\* levels[i] the nodes first reached after i-1 edges.
RECURSIVE BfsLevels(_, _, _, _)
BfsLevels(G, frontier, seen, levels) ==
    IF frontier = {}
    THEN levels
    ELSE LET next == (UNION {Successors(G, v) : v \in frontier}) \ seen
         IN  BfsLevels(G, next, seen \cup next, Append(levels, frontier))

\* The nodes the search from the nodes of S reaches, those of S included.
ReachableWithin(G, S) ==
    LET levels == BfsLevels(G, S, S, <<>>)
    IN  UNION {levels[i] : i \in 1..Len(levels)}

\* The paths the predecessor links of the search give from the source, the
\* only node of levels[1], to node v of levels[i].
RECURSIVE PathsBack(_, _, _, _)
PathsBack(G, levels, i, v) ==
    IF i = 1
    THEN {<<v>>}
    ELSE UNION {{Append(p, v) : p \in PathsBack(G, levels, i - 1, u)} :
                  u \in {w \in levels[i - 1] : HasEdge(G, w, v)}}

\* A mutant of NxShortestPath: the search runs from the target to the
\* source.
NxShortestPath_Swapped(G, source, target) ==
    IF ~HasNode(G, source) \/ ~HasNode(G, target)
    THEN [exc |-> "NodeNotFound", paths |-> {}]
    ELSE LET levels == BfsLevels(G, {target}, {target}, <<>>)
             found  == {i \in 1..Len(levels) : source \in levels[i]}
         IN  IF found = {}
             THEN [exc |-> "NetworkXNoPath", paths |-> {}]
             ELSE [exc |-> "none",
                   paths |-> PathsBack(G, levels, CHOOSE i \in found : TRUE, source)]

\* nx.shortest_path(G, source=start, target=end), unweighted: NodeNotFound
\* for an unknown endpoint, NetworkXNoPath when the search ends without
\* reaching the target, else one of the paths of the search, which one
\* depending on the iteration order of the adjacency dictionaries.
NxShortestPath(G, source, target) ==
    IF ~HasNode(G, source) \/ ~HasNode(G, target)
    THEN [exc |-> "NodeNotFound", paths |-> {}]
    ELSE LET levels == BfsLevels(G, {source}, {source}, <<>>)
             found  == {i \in 1..Len(levels) : target \in levels[i]}
         IN  IF found = {}
             THEN [exc |-> "NetworkXNoPath", paths |-> {}]
             ELSE [exc |-> "none",
                   paths |-> PathsBack(G, levels, CHOOSE i \in found : TRUE, target)]

\* A mutant of CaughtByShortestPath: NodeNotFound is not caught.
CaughtByShortestPath_NoPathOnly == {"NetworkXNoPath"}

\* shortest_path, line 95: the exceptions that are turned into a message.
CaughtByShortestPath == {"NetworkXNoPath", "NodeNotFound"}

shortest_path(start, end) ==
    LET r == NxShortestPath(graph, start, end)
    IN  /\ graph' = graph
        /\ IF r.exc = "none"
           THEN \E p \in r.paths :
                    last' = Query("shortest_path", <<start, end>>, FALSE,
                                  [kind |-> "list", val |-> p])
           ELSE IF r.exc \in CaughtByShortestPath
           THEN last' = Query("shortest_path", <<start, end>>, FALSE,
                              [kind |-> "str", val |-> r.exc])
           ELSE last' = Query("shortest_path", <<start, end>>, TRUE,
                              [kind |-> "none"])

\* recommend_friends, line 112
CurrentFriends(G, user) == Successors(G, user)

\* A mutant of IsCandidate: the user itself is not excluded.
IsCandidate_KeepsSelf(G, user, friend_of_friend) ==
    friend_of_friend \notin Successors(G, user)

\* recommend_friends, line 118: the test a friend of a friend has to pass.
IsCandidate(G, user, friend_of_friend) ==
    /\ friend_of_friend # user
    /\ friend_of_friend \notin CurrentFriends(G, user)

\* recommend_friends, lines 115-119: the dictionary mutual_friends.
MutualFriends(G, user) ==
    LET counted(c) == {f \in CurrentFriends(G, user) :
                          c \in Successors(G, f) /\ IsCandidate(G, user, c)}
    IN  [c \in {d \in Nodes(G) : counted(d) # {}} |-> Cardinality(counted(c))]

\* A mutant of SortedItems: the items in non-decreasing order of count.
SortedItems_Ascending(d) ==
    {s \in [1..Cardinality(DOMAIN d) -> {<<c, d[c]>> : c \in DOMAIN d}] :
        /\ \A i, j \in DOMAIN s : i # j => s[i] # s[j]
        /\ \A i, j \in DOMAIN s : i < j => s[i][2] <= s[j][2]}

\* sorted(mutual_friends.items(), key=count, reverse=True): the items in
\* non-increasing order of count; items of equal count keep the order of
\* the dictionary, which the iteration order of a set decides.
SortedItems(d) ==
    {s \in [1..Cardinality(DOMAIN d) -> {<<c, d[c]>> : c \in DOMAIN d}] :
        /\ \A i, j \in DOMAIN s : i # j => s[i] # s[j]
        /\ \A i, j \in DOMAIN s : i < j => s[i][2] >= s[j][2]}

recommend_friends(user) ==
    /\ graph' = graph
    /\ IF ~HasNode(graph, user)
       THEN last' = Query("recommend_friends", <<user>>, FALSE,
                          [kind |-> "list", val |-> <<>>])
       ELSE \E s \in SortedItems(MutualFriends(graph, user)) :
                last' = Query("recommend_friends", <<user>>, FALSE,
                              [kind |-> "list", val |-> s])

(* -------------------------- NetworkAnalytics -------------------------- *)

\* A float is modelled by the rational it stands for: the record
\* [num, den] in lowest terms, den > 0.
RECURSIVE Gcd(_, _)
Gcd(a, b) == IF b = 0 THEN a ELSE Gcd(b, a % b)

Frac(n, d) ==
    LET g == Gcd(n, d) IN [num |-> n \div g, den |-> d \div g]

FracLeq(p, q) == p.num * q.den <= q.num * p.den

FracAdd(p, q) == Frac(p.num * q.den + q.num * p.den, p.den * q.den)

FracMul(p, q) == Frac(p.num * q.num, p.den * q.den)

FracDiv(p, q) == Frac(p.num * q.den, p.den * q.num)

RECURSIVE FracSum(_, _)
FracSum(f, S) ==
    IF S = {}
    THEN Frac(0, 1)
    ELSE LET x == CHOOSE y \in S : TRUE
         IN  FracAdd(f[x], FracSum(f, S \ {x}))

\* The record of an analytics call that returned val.
Returned(op, args, kind, val) ==
    Query(op, args, FALSE, [kind |-> kind, val |-> val])

\* The record of an analytics call that let the exception exc escape.
Raised(op, args, exc) ==
    Query(op, args, TRUE, [kind |-> "exception", val |-> exc])

\* nx.density(G) of a DiGraph: 0 when there is no edge or at most one
\* node, else m / (n * (n - 1)); self-loops count among the m edges.
NxDensity(G) ==
    LET n == Cardinality(Nodes(G))
        m == Cardinality(Edges(G))
    IN  IF m = 0 \/ n <= 1 THEN Frac(0, 1) ELSE Frac(m, n * (n - 1))

get_density ==
    /\ graph' = graph
    /\ last' = Returned("get_density", <<>>, "float", NxDensity(graph))

RECURSIVE IntSum(_, _)
IntSum(f, S) ==
    IF S = {}
    THEN 0
    ELSE LET x == CHOOSE y \in S : TRUE
         IN  f[x] + IntSum(f, S \ {x})

\* G.degree() of a DiGraph: in-degree plus out-degree, so that a self-loop
\* counts twice.
Degree(G, v) ==
    Cardinality({e \in Edges(G) : e[1] = v}) + Cardinality({e \in Edges(G) : e[2] = v})

\* nx.degree_centrality(G): 1 for every node when there is at most one,
\* else the degree times 1 / (n - 1).
NxDegreeCentrality(G) ==
    LET n == Cardinality(Nodes(G))
    IN  Dict([v \in Nodes(G) |->
                 IF n <= 1 THEN Frac(1, 1) ELSE Frac(Degree(G, v), n - 1)])

\* The values the model lets a score of nx.eigenvector_centrality take: the
\* least and the greatest entry a non-negative vector of norm 1 can have.
UnitSamples == {Frac(0, 1), Frac(1, 1)}

\* nx.eigenvector_centrality(G, max_iter=1000) under the try of lines
\* 134-138: the power iteration ends with a vector of Euclidean norm 1 and
\* no negative entry, or fails and every score is 0.0. The iteration is
\* not computed: every score is either end of [0, 1].
EigenvectorOutcomes(G) == [Nodes(G) -> UnitSamples]

\* Every shortest directed path from s to t, none when t is out of reach.
AllShortestPaths(G, s, t) ==
    LET levels == BfsLevels(G, {s}, {s}, <<>>)
        found  == {i \in 1..Len(levels) : t \in levels[i]}
    IN  IF found = {}
        THEN {}
        ELSE PathsBack(G, levels, CHOOSE i \in found : TRUE, t)

\* The share of the shortest paths from s to t that pass through v.
PairDependency(G, s, t, v) ==
    LET paths == AllShortestPaths(G, s, t)
        via   == {p \in paths : \E i \in 2..(Len(p) - 1) : p[i] = v}
    IN  IF paths = {} THEN Frac(0, 1) ELSE Frac(Cardinality(via), Cardinality(paths))

\* nx.betweenness_centrality(G), normalized, without endpoints: the sum of
\* the pair dependencies over the ordered pairs of other nodes, times
\* 1 / ((n - 1) * (n - 2)) when n > 2.
NxBetweennessCentrality(G) ==
    LET n == Cardinality(Nodes(G))
        betweenness(v) ==
            LET pairs == {pr \in Nodes(G) \X Nodes(G) :
                              pr[1] # pr[2] /\ pr[1] # v /\ pr[2] # v}
                raw   == FracSum([pr \in pairs |-> PairDependency(G, pr[1], pr[2], v)],
                                 pairs)
            IN  IF n <= 2 THEN raw ELSE FracDiv(raw, Frac((n - 1) * (n - 2), 1))
    IN  Dict([v \in Nodes(G) |-> betweenness(v)])

\* G.reverse(): every edge turned round.
ReverseGraph(G) ==
    [node |-> G.node,
     adj  |-> [e \in {<<f[2], f[1]>> : f \in Edges(G)} |-> G.adj[<<e[2], e[1]>>]]]

\* nx.closeness_centrality(G), wf_improved: over the distances to v from
\* the r nodes that reach it, (r / total distance) * (r / (n - 1)), and
\* 0.0 when no other node reaches v.
NxClosenessCentrality(G) ==
    LET n == Cardinality(Nodes(G))
        closeness(v) ==
            LET levels == BfsLevels(ReverseGraph(G), {v}, {v}, <<>>)
                idx    == 1..Len(levels)
                len_sp == IntSum([i \in idx |-> Cardinality(levels[i])], idx)
                totsp  == IntSum([i \in idx |-> (i - 1) * Cardinality(levels[i])], idx)
            IN  IF totsp > 0 /\ n > 1
                THEN FracMul(Frac(len_sp - 1, totsp), Frac(len_sp - 1, n - 1))
                ELSE Frac(0, 1)
    IN  Dict([v \in Nodes(G) |-> closeness(v)])

\* get_centrality_measures, lines 153-160: the record of each node.
CentralityRecords(G, degree_centrality, eigenvector_centrality, betweenness_centrality, closeness_centrality) ==
    [v \in Nodes(G) |->
        [degree_centrality      |-> degree_centrality[v],
         eigenvector_centrality |-> eigenvector_centrality[v],
         betweenness_centrality |-> betweenness_centrality[v],
         closeness_centrality   |-> closeness_centrality[v]]]

\* The dictionaries get_centrality_measures can return for G.
CentralityMeasures(G) ==
    IF Cardinality(Nodes(G)) = 0
    THEN {EmptyDict}
    ELSE LET degree_centrality      == NxDegreeCentrality(G)
             betweenness_centrality == NxBetweennessCentrality(G)
             closeness_centrality   == NxClosenessCentrality(G)
         IN  {CentralityRecords(G, degree_centrality, eigenvector_centrality,
                                betweenness_centrality, closeness_centrality) :
                  eigenvector_centrality \in EigenvectorOutcomes(G)}

get_centrality_measures ==
    /\ graph' = graph
    /\ \E results \in CentralityMeasures(graph) :
          last' = Returned("get_centrality_measures", <<>>, "dict", results)

\* A mutant of ZeroCentrality: the default degree centrality is 1, as
\* nx.degree_centrality gives the only node of a graph.
ZeroCentrality_DegreeOne ==
    [degree_centrality      |-> Frac(1, 1),
     eigenvector_centrality |-> Frac(0, 1),
     betweenness_centrality |-> Frac(0, 1),
     closeness_centrality   |-> Frac(0, 1)]

\* get_user_centrality, lines 175-180: the default of the lookup.
ZeroCentrality ==
    [degree_centrality      |-> Frac(0, 1),
     eigenvector_centrality |-> Frac(0, 1),
     betweenness_centrality |-> Frac(0, 1),
     closeness_centrality   |-> Frac(0, 1)]

\* dict.get(key, default)
DictGet(d, key, default) == IF key \in DOMAIN d THEN d[key] ELSE default

\* The records get_user_centrality can return for user.
UserCentrality(G, user) ==
    {DictGet(centrality_measures, user, ZeroCentrality) :
        centrality_measures \in CentralityMeasures(G)}

get_user_centrality(user) ==
    /\ graph' = graph
    /\ \E centrality \in UserCentrality(graph, user) :
          last' = Returned("get_user_centrality", <<user>>, "dict", centrality)

\* calculate_influence_score, lines 267-272
Weights ==
    [degree_centrality      |-> Frac(3, 10),
     eigenvector_centrality |-> Frac(3, 10),
     betweenness_centrality |-> Frac(3, 10),
     closeness_centrality   |-> Frac(1, 10)]

\* calculate_influence_score, lines 274-278: the weighted sum of the
\* measures divided by the sum of the weights.
NormalizedScore(centrality) ==
    LET score == FracSum([measure \in DOMAIN Weights |->
                             FracMul(centrality[measure], Weights[measure])],
                         DOMAIN Weights)
        max_possible_score == FracSum(Weights, DOMAIN Weights)
    IN  FracDiv(score, max_possible_score)

calculate_influence_score(user) ==
    /\ graph' = graph
    /\ IF ~HasNode(graph, user)
       THEN last' = Returned("calculate_influence_score", <<user>>, "float", Frac(0, 1))
       ELSE \E centrality \in UserCentrality(graph, user) :
                last' = Returned("calculate_influence_score", <<user>>, "float",
                                 NormalizedScore(centrality))

\* self.graph.to_undirected(): the same nodes, and every edge in both
\* directions, as the adjacency of an undirected graph holds it. The
\* attribute dictionaries of the copy are left out: no call reads them.
ToUndirected(G) ==
    [node |-> [v \in Nodes(G) |-> EmptyDict],
     adj  |-> [e \in Edges(G) \cup {<<f[2], f[1]>> : f \in Edges(G)} |-> EmptyDict]]

\* The edges of an undirected graph, each the set of its one or two ends.
UndirectedEdges(U) == {{e[1], e[2]} : e \in Edges(U)}

\* A mutant of NumberOfEdges: the self-loops are not counted.
NumberOfEdges_NoSelfLoops(U) == Cardinality({e \in UndirectedEdges(U) : Cardinality(e) = 2})

\* U.number_of_edges(); a self-loop is an edge.
NumberOfEdges(U) == Cardinality(UndirectedEdges(U))

\* nx.connected_components(U): the sets of nodes joined by paths.
ConnectedComponents(U) == {ReachableWithin(U, {v}) : v \in Nodes(U)}

\* The sequences that list every member of the set S once: the orders in
\* which S can be iterated.
Orderings(S) ==
    {s \in [1..Cardinality(S) -> S] : \A i, j \in 1..Cardinality(S) : i # j => s[i] # s[j]}

\* nx.is_connected(U): raises NetworkXPointlessConcept for the graph
\* without nodes.
NxIsConnected(U) ==
    IF Cardinality(Nodes(U)) = 0
    THEN [exc |-> "NetworkXPointlessConcept", val |-> FALSE]
    ELSE [exc |-> "none", val |-> Cardinality(ConnectedComponents(U)) = 1]

\* max(component_sizes) of a non-empty list
Max(sizes) == CHOOSE m \in {sizes[i] : i \in DOMAIN sizes} :
                  \A i \in DOMAIN sizes : sizes[i] <= m

\* f"{x:.2f}%": x rounded to hundredths, as the pair of the digits before
\* and after the point, and the sign "%".
FormatPercent(x) ==
    LET hundredths == (2 * 100 * x.num + x.den) \div (2 * x.den)
    IN  [int |-> hundredths \div 100, frac |-> hundredths % 100, suffix |-> "%"]

\* get_connectivity_data, lines 98-114, for the list components.
ConnectivityResults(G, is_connected, components) ==
    LET component_sizes == [i \in DOMAIN components |-> Cardinality(components[i])]
        largest_component_size ==
            IF component_sizes # <<>> THEN Max(component_sizes) ELSE 0
        largest_component_percentage ==
            IF Cardinality(Nodes(G)) > 0
            THEN FracMul(Frac(largest_component_size, Cardinality(Nodes(G))),
                         Frac(100, 1))
            ELSE Frac(0, 1)
    IN  [Connected                    |-> is_connected,
         NumberOfComponents           |-> Len(components),
         LargestComponentSize         |-> largest_component_size,
         LargestComponentPercentage   |-> FormatPercent(largest_component_percentage),
         ComponentSizes               |-> component_sizes]

get_connectivity_data ==
    LET undirected   == ToUndirected(graph)
        is_connected == NxIsConnected(undirected)
    IN  /\ graph' = graph
        /\ IF is_connected.exc # "none"
           THEN last' = Raised("get_connectivity_data", <<>>, is_connected.exc)
           ELSE \E components \in Orderings(ConnectedComponents(undirected)) :
                    last' = Returned("get_connectivity_data", <<>>, "dict",
                                     ConnectivityResults(graph, is_connected.val,
                                                         components))

(* ----------------------------- metrics ------------------------------- *)

\* undirected.subgraph(nodes): the nodes of the graph among those given and
\* the edges between them.
Subgraph(U, nodes) ==
    [node |-> [v \in Nodes(U) \cap nodes |-> U.node[v]],
     adj  |-> [e \in {f \in Edges(U) : f[1] \in nodes /\ f[2] \in nodes} |-> U.adj[e]]]

\* nx.clustering(G) of an undirected graph: for the d neighbors of v other
\* than v, the ordered pairs of them that are adjacent over d * (d - 1),
\* and 0 when there is no such pair.
NxClustering(U) ==
    LET clustering(v) ==
            LET vs == Successors(U, v) \ {v}
                d  == Cardinality(vs)
                t  == Cardinality({pr \in vs \X vs :
                                      pr[1] # pr[2] /\ HasEdge(U, pr[1], pr[2])})
            IN  IF t = 0 THEN Frac(0, 1) ELSE Frac(t, d * (d - 1))
    IN  Dict([v \in Nodes(U) |-> clustering(v)])

\* nx.average_clustering(G): sum(c) / len(c); ZeroDivisionError for the
\* graph without nodes.
NxAverageClustering(U) ==
    LET c == NxClustering(U)
    IN  IF Cardinality(Nodes(U)) = 0
        THEN [exc |-> "ZeroDivisionError", val |-> Frac(0, 1)]
        ELSE [exc |-> "none",
              val |-> FracDiv(FracSum(c, DOMAIN c), Frac(Cardinality(DOMAIN c), 1))]

get_avg_clustering ==
    LET undirected == ToUndirected(graph)
    IN  /\ graph' = graph
        /\ IF Cardinality(Nodes(undirected)) > 0
           THEN last' = Returned("get_avg_clustering", <<>>, "float",
                                 NxAverageClustering(undirected).val)
           ELSE last' = Returned("get_avg_clustering", <<>>, "float", Frac(0, 1))

\* The number of edges of a shortest path from s to t in a graph in which
\* t can be reached from s.
Distance(G, s, t) ==
    LET levels == BfsLevels(G, {s}, {s}, <<>>)
    IN  (CHOOSE i \in 1..Len(levels) : t \in levels[i]) - 1

\* nx.average_shortest_path_length(G) of an undirected graph: raises
\* NetworkXPointlessConcept without nodes, is 0 for one node, raises
\* NetworkXError when the graph is not connected, and else is the sum of
\* the distances of the ordered pairs of nodes over n * (n - 1).
NxAverageShortestPathLength(U) ==
    LET n     == Cardinality(Nodes(U))
        pairs == {pr \in Nodes(U) \X Nodes(U) : pr[1] # pr[2]}
    IN  IF n = 0 THEN [exc |-> "NetworkXPointlessConcept", val |-> Frac(0, 1)]
        ELSE IF n = 1 THEN [exc |-> "none", val |-> Frac(0, 1)]
        ELSE IF Cardinality(ConnectedComponents(U)) # 1
        THEN [exc |-> "NetworkXError", val |-> Frac(0, 1)]
        ELSE [exc |-> "none",
              val |-> Frac(IntSum([pr \in pairs |-> Distance(U, pr[1], pr[2])], pairs),
                           n * (n - 1))]

\* A mutant of LargestComponents: any component.
LargestComponents_Any(components) == components

\* max(components, key=len): a component of the greatest size, the first
\* of them in the order of the list.
LargestComponents(components) ==
    {c \in components : \A d \in components : Cardinality(d) <= Cardinality(c)}

\* get_avg_path_length, lines 47-60: what the call can end with.
AvgPathLengthOutcomes(G) ==
    LET undirected == ToUndirected(G)
        whole      == NxAverageShortestPathLength(undirected)
        components == ConnectedComponents(undirected)
    IN  IF Cardinality(Nodes(undirected)) > 1
        THEN IF whole.exc = "none" THEN {whole}
             ELSE IF whole.exc = "NetworkXError"
             THEN IF components # {}
                  THEN {NxAverageShortestPathLength(Subgraph(undirected, largest)) :
                           largest \in LargestComponents(components)}
                  ELSE {[exc |-> "none", val |-> Frac(0, 1)]}
             ELSE {whole}
        ELSE {[exc |-> "none", val |-> Frac(0, 1)]}

get_avg_path_length ==
    /\ graph' = graph
    /\ \E r \in AvgPathLengthOutcomes(graph) :
          IF r.exc = "none"
          THEN last' = Returned("get_avg_path_length", <<>>, "float", r.val)
          ELSE last' = Raised("get_avg_path_length", <<>>, r.exc)

\* nx.number_connected_components(undirected)
get_num_connected_components ==
    /\ graph' = graph
    /\ last' = Returned("get_num_connected_components", <<>>, "int",
                        Cardinality(ConnectedComponents(ToUndirected(graph))))

\* nx.degree_assortativity_coefficient(G) under the try of lines 79-82: a
\* correlation coefficient of [-1, 1], nan when the degrees do not vary,
\* or 0.0 after an exception. The coefficient is not computed: it is nan,
\* either end of the interval or 0.
AssortativityOutcomes == {"nan", "-1.0", "0.0", "1.0"}

get_degree_assortativity ==
    /\ graph' = graph
    /\ \E r \in AssortativityOutcomes :
          last' = Returned("get_degree_assortativity", <<>>, "float", r)

\* calculate_influence_scores: the score of every user. Each score comes
\* from a call of get_centrality_measures of its own; as the entry of a
\* user does not depend on the entries of the others, the dictionaries of
\* scores are those of the dictionaries get_centrality_measures can return.
calculate_influence_scores ==
    /\ graph' = graph
    /\ \E centrality_measures \in CentralityMeasures(graph) :
          last' = Returned("calculate_influence_scores", <<>>, "dict",
                           [user \in Nodes(graph) |->
                               NormalizedScore(centrality_measures[user])])

(* ------------------------- community metrics -------------------------- *)

\* A mutant of PossibleInternalEdges: the ordered pairs of members.
PossibleInternalEdges_Ordered(size) == Frac(size * (size - 1), 1)

\* get_community_metrics, line 218: (size * (size - 1)) / 2
PossibleInternalEdges(size) == Frac(size * (size - 1), 2)

\* A mutant of ExternalConnections: an outside neighbor is counted once,
\* however many members it is adjacent to.
ExternalConnections_Deduplicated(undirected, community) ==
    Cardinality((UNION {Successors(undirected, node) : node \in community}) \ community)

\* get_community_metrics, lines 222-225: for every member the number of
\* its neighbors outside the community, summed up.
ExternalConnections(undirected, community) ==
    IntSum([node \in community |->
               Cardinality(Successors(undirected, node) \ community)],
           community)

\* get_community_metrics, lines 215-246: the row of the non-empty community
\* at position i of the list, all of whose members are users.
CommunityRow(undirected, community, i) ==
    LET subgraph       == Subgraph(undirected, community)
        size           == Cardinality(community)
        internal_edges == NumberOfEdges(subgraph)
        possible_internal_edges == PossibleInternalEdges(size)
        internal_density ==
            IF possible_internal_edges.num > 0
            THEN FracDiv(Frac(internal_edges, 1), possible_internal_edges)
            ELSE Frac(0, 1)
        external_connections == ExternalConnections(undirected, community)
        total_connections == internal_edges + external_connections
        cohesion ==
            IF total_connections > 0
            THEN Frac(internal_edges, total_connections)
            ELSE Frac(0, 1)
        avg_clustering ==
            IF size > 1 THEN NxAverageClustering(subgraph).val ELSE Frac(0, 1)
    IN  [CommunityID         |-> i,
         Size                |-> size,
         InternalEdges       |-> internal_edges,
         ExternalConnections |-> external_connections,
         InternalDensity     |-> internal_density,
         Cohesion            |-> cohesion,
         AvgClustering       |-> avg_clustering]

\* A mutant of CommunityRows: the rows are numbered 1, 2, ... in the order
\* in which they are appended.
CommunityRows_Renumbered(undirected, communities, i) ==
    LET kept == SelectSeq(communities, LAMBDA c : c # {})
    IN  [j \in 1..Len(kept) |-> CommunityRow(undirected, kept[j], j)]

\* get_community_metrics, lines 209-246: the rows of the communities from
\* position i on, the empty ones skipped.
RECURSIVE CommunityRows(_, _, _)
CommunityRows(undirected, communities, i) ==
    IF i > Len(communities)
    THEN <<>>
    ELSE (IF communities[i] = {}
          THEN <<>>
          ELSE <<CommunityRow(undirected, communities[i], i)>>)
         \o CommunityRows(undirected, communities, i + 1)

\* A community is modelled by the set of its members. undirected.neighbors
\* raises NetworkXError for a member that is not a node of the graph.
get_community_metrics(communities) ==
    LET undirected == ToUndirected(graph)
    IN  /\ graph' = graph
        /\ IF \E i \in 1..Len(communities) : ~(communities[i] \subseteq Nodes(graph))
           THEN last' = Raised("get_community_metrics", <<communities>>, "NetworkXError")
           ELSE last' = Returned("get_community_metrics", <<communities>>, "DataFrame",
                                 CommunityRows(undirected, communities, 1))

(* ---------------------------- search_users ---------------------------- *)

\* get_user_attributes: a copy of the user's dictionary, {} for a handle
\* that is not a user.
UserAttributesCopy(G, user) ==
    IF HasNode(G, user) THEN G.node[user] ELSE EmptyDict

\* str(value).lower() of the strings the model uses, as the sequence of
\* its characters.
LowerChars(text) ==
    CASE text = ""  -> <<>>
      [] text = "A" -> <<"a">>
      [] text = "B" -> <<"b">>
      [] text = "C" -> <<"c">>
      [] text = "a" -> <<"a">>
      [] text = "Friend" -> <<"f", "r", "i", "e", "n", "d">>
      [] text = "Nick" -> <<"n", "i", "c", "k">>
      [] text = "IC" -> <<"i", "c">>

\* term in text, for two sequences of characters
Contains(text, term) ==
    \E k \in 0..(Len(text) - Len(term)) :
        \A i \in 1..Len(term) : text[k + i] = term[i]

\* search_users, lines 220-230: whether the user is appended to results.
Matches(G, user, search_term) ==
    \/ Contains(LowerChars(user), search_term)
    \/ \E key \in DOMAIN UserAttributesCopy(G, user) :
          Contains(LowerChars(UserAttributesCopy(G, user)[key]), search_term)

\* The list results follows the order of the nodes of the graph.
search_users(search_term) ==
    /\ graph' = graph
    /\ \E results \in Orderings({user \in Nodes(graph) :
                                    Matches(graph, user, LowerChars(search_term))}) :
          last' = Returned("search_users", <<search_term>>, "list", results)

(* -------------------- simulate_information_spread --------------------- *)

FracLess(p, q) == p.num * q.den < q.num * p.den

\* The values the model lets random.random(), a float of [0.0, 1.0), take.
RandomDraws == {Frac(0, 1), Frac(1, 2)}

\* A mutant of Spreads: a draw equal to the probability spreads too.
Spreads_AtMost(draw, probability) == FracLeq(draw, probability)

\* simulate_information_spread, line 325: random.random() < probability
Spreads(draw, probability) == FracLess(draw, probability)

\* [u for u, has_info in informed.items() if has_info]
InformedUsers(informed) == {u \in DOMAIN informed : informed[u]}

\* A mutant of Neighbors: the users at either end of an edge of user.
Neighbors_EitherWay(G, user) ==
    {v \in Nodes(G) : <<user, v>> \in Edges(G) \/ <<v, user>> \in Edges(G)}

\* G.neighbors(user) of a DiGraph: the successors.
Neighbors(G, user) == Successors(G, user)

\* A mutant of NewlyInformed: the users infected during the round spread
\* the information in the same round.
NewlyInformed_Cascading(G, informed, probability) ==
    LET tries(users) == {t \in users \X DOMAIN informed :
                            t[2] \in Neighbors(G, t[1]) /\ t[2] \notin users}
        once(users)  == {{t[2] : t \in {x \in tries(users) : Spreads(draw[x], probability)}} :
                            draw \in [tries(users) -> RandomDraws]}
    IN  UNION {{n1 \cup n2 : n2 \in once(InformedUsers(informed) \cup n1)} :
                  n1 \in once(InformedUsers(informed))}

\* simulate_information_spread, lines 317-326: one draw for every informed
\* user and every neighbor of it that is not informed; the users the list
\* newly_informed can hold at the end of the round.
NewlyInformed(G, informed, probability) ==
    LET tries == {t \in InformedUsers(informed) \X DOMAIN informed :
                     t[2] \in Neighbors(G, t[1]) /\ ~informed[t[2]]}
    IN  {{t[2] : t \in {x \in tries : Spreads(draw[x], probability)}} :
            draw \in [tries -> RandomDraws]}

\* A mutant of MarkInformed: only the users of newly_informed are marked,
\* every other user is reported as not informed.
MarkInformed_OnlyNew(informed, newly_informed) ==
    [u \in DOMAIN informed |-> u \in newly_informed]

\* simulate_information_spread, lines 329-330: informed[user] = True for
\* every user of newly_informed, after the whole round.
MarkInformed(informed, newly_informed) ==
    [u \in DOMAIN informed |-> informed[u] \/ u \in newly_informed]

\* A mutant of LoopEnds: the loop never breaks.
LoopEnds_Never(newly_informed) == FALSE

\* simulate_information_spread, lines 333-334: if not newly_informed: break
LoopEnds(newly_informed) == newly_informed = {}

\* simulate_information_spread, lines 316-334: the rounds that are left;
\* the dictionaries informed can be at the end of the loop.
RECURSIVE SpreadRounds(_, _, _, _)
SpreadRounds(G, informed, probability, rounds_left) ==
    IF rounds_left = 0
    THEN {informed}
    ELSE UNION {IF LoopEnds(newly_informed)
                THEN {MarkInformed(informed, newly_informed)}
                ELSE SpreadRounds(G, MarkInformed(informed, newly_informed),
                                  probability, rounds_left - 1) :
                newly_informed \in NewlyInformed(G, informed, probability)}

\* A mutant of simulate_information_spread: the seed is marked informed
\* in its attribute dictionary in the graph.
simulate_information_spread_MarksSeed(start_user, probability, iterations) ==
    IF ~HasNode(graph, start_user)
    THEN /\ last' = Returned("simulate_information_spread",
                              <<start_user, probability, iterations>>, "dict", EmptyDict)
         /\ graph' = graph
    ELSE /\ \E informed \in SpreadRounds(graph,
                                          [user \in Nodes(graph) |-> user = start_user],
                                          probability, iterations) :
                last' = Returned("simulate_information_spread",
                                 <<start_user, probability, iterations>>, "dict", informed)
         /\ graph' = SetNodeAttributes(graph, start_user, [informed |-> TRUE])

simulate_information_spread(start_user, probability, iterations) ==
    /\ graph' = graph
    /\ IF ~HasNode(graph, start_user)
       THEN last' = Returned("simulate_information_spread",
                             <<start_user, probability, iterations>>, "dict", EmptyDict)
       ELSE \E informed \in SpreadRounds(graph,
                                         [user \in Nodes(graph) |-> user = start_user],
                                         probability, iterations) :
                last' = Returned("simulate_information_spread",
                                 <<start_user, probability, iterations>>, "dict", informed)

(* ------------- simulate_information_spread, round by round ------------ *)

\* The call in progress: last holds its name and arguments, and in place
\* of the result the local variables of the frame: the dictionary
\* informed, the number of passes of the for loop made so far, and whether
\* the loop was left by break.
Running(op, args, informed, rounds, broke) ==
    Query(op, args, FALSE,
          [kind |-> "running", val |-> informed, rounds |-> rounds, broke |-> broke])

\* A call is in progress; the calls are synchronous, no other call starts
\* before it has returned.
InProgress == last.ret.kind = "running"

\* simulate_information_spread, lines 306-313: the early return for a
\* seed that is not a user, or the dictionary before the first round.
simulate_information_spread_enter(start_user, probability, iterations) ==
    /\ ~InProgress
    /\ graph' = graph
    /\ IF ~HasNode(graph, start_user)
       THEN last' = Returned("simulate_information_spread",
                             <<start_user, probability, iterations>>, "dict", EmptyDict)
       ELSE last' = Running("simulate_information_spread",
                            <<start_user, probability, iterations>>,
                            [user \in Nodes(graph) |-> user = start_user], 0, FALSE)

\* simulate_information_spread, lines 316-334: one pass of the for loop.
simulate_information_spread_round ==
    /\ InProgress
    /\ ~last.ret.broke
    /\ last.ret.rounds < last.args[3]
    /\ graph' = graph
    /\ \E newly_informed \in NewlyInformed(graph, last.ret.val, last.args[2]) :
          last' = Running(last.op, last.args,
                          MarkInformed(last.ret.val, newly_informed),
                          last.ret.rounds + 1, LoopEnds(newly_informed))

\* simulate_information_spread, line 336: return informed, once the range
\* is exhausted or the loop was left by break.
simulate_information_spread_return ==
    /\ InProgress
    /\ last.ret.broke \/ last.ret.rounds >= last.args[3]
    /\ graph' = graph
    /\ last' = Returned(last.op, last.args, "dict", last.ret.val)

(* ------------------------- detect_communities ------------------------- *)

\* g.remove_edges_from(nx.selfloop_edges(g))
WithoutSelfLoops(U) ==
    [U EXCEPT !.adj = [e \in {f \in Edges(U) : f[1] # f[2]} |-> U.adj[e]]]

\* G.remove_edge(*edge) of an undirected graph
RemoveUndirectedEdge(U, edge) ==
    [U EXCEPT !.adj = [e \in {f \in Edges(U) : {f[1], f[2]} # edge} |-> U.adj[e]]]

\* nx.edge_betweenness_centrality(G) of an undirected graph, up to the
\* positive factor of its normalization: for every edge the sum over the
\* ordered pairs of different nodes of the share of their shortest paths
\* that run over the edge.
EdgeBetweennessCentrality(U) ==
    LET pairs == {pr \in Nodes(U) \X Nodes(U) : pr[1] # pr[2]}
        paths == Dict([pr \in pairs |-> AllShortestPaths(U, pr[1], pr[2])])
        share(pr, edge) ==
            LET over == {p \in paths[pr] :
                            \E i \in 1..(Len(p) - 1) : {p[i], p[i + 1]} = edge}
            IN  IF paths[pr] = {}
                THEN Frac(0, 1)
                ELSE Frac(Cardinality(over), Cardinality(paths[pr]))
    IN  Dict([edge \in UndirectedEdges(U) |->
                 FracSum([pr \in pairs |-> share(pr, edge)], pairs)])

\* max(betweenness, key=betweenness.get): an edge of the greatest
\* betweenness, the first of them in the order of the dictionary.
MostValuableEdges(U) ==
    LET betweenness == EdgeBetweennessCentrality(U)
    IN  {e \in DOMAIN betweenness :
            \A f \in DOMAIN betweenness : FracLeq(betweenness[f], betweenness[e])}

\* A mutant of WithoutMostCentralEdges: all the edges of the greatest
\* betweenness are removed together in one pass.
RECURSIVE WithoutMostCentralEdges_AllTies(_, _)
WithoutMostCentralEdges_AllTies(U, original_num_components) ==
    LET ties           == MostValuableEdges(U)
        removed        == [U EXCEPT !.adj = [e \in {f \in Edges(U) : {f[1], f[2]} \notin ties}
                                                |-> U.adj[e]]]
        new_components == ConnectedComponents(removed)
    IN  IF Cardinality(new_components) <= original_num_components
        THEN WithoutMostCentralEdges_AllTies(removed, original_num_components)
        ELSE {new_components}

\* _without_most_central_edges(G, most_valuable_edge): edges are removed
\* until there are more connected components than at the start; the
\* components G can end with.
RECURSIVE WithoutMostCentralEdges(_, _)
WithoutMostCentralEdges(U, original_num_components) ==
    UNION {LET removed        == RemoveUndirectedEdge(U, edge)
               new_components == ConnectedComponents(removed)
           IN  IF Cardinality(new_components) <= original_num_components
               THEN WithoutMostCentralEdges(removed, original_num_components)
               ELSE {new_components} :
           edge \in MostValuableEdges(U)}

\* next(girvan_newman(undirected)): the connected components when there is
\* no edge; else the self-loops are dropped and the first partition with
\* more components is yielded, and the generator ends without yielding,
\* so that next raises StopIteration, when no edge is left to remove.
GirvanNewmanFirst(U) ==
    IF NumberOfEdges(U) = 0
    THEN [exc |-> "none", results |-> {ConnectedComponents(U)}]
    ELSE LET g == WithoutSelfLoops(U)
         IN  IF NumberOfEdges(g) > 0
             THEN [exc |-> "none",
                   results |-> WithoutMostCentralEdges(
                                   g, Cardinality(ConnectedComponents(g)))]
             ELSE [exc |-> "StopIteration", results |-> {}]

\* Every way to split the set S into non-empty disjoint sets.
RECURSIVE Partitions(_)
Partitions(S) ==
    IF S = {}
    THEN {{}}
    ELSE LET x == CHOOSE y \in S : TRUE
         IN  UNION {{P \cup {{x}}} \cup {(P \ {b}) \cup {b \cup {x}} : b \in P} :
                       P \in Partitions(S \ {x})}

\* greedy_modularity_communities, label_propagation_communities and
\* community_louvain.best_partition start from one community per node and
\* only ever join the communities of adjacent nodes: the merging itself is
\* not computed, the result is any partition whose communities each lie
\* within one connected component. None of them raises (networkx 3
\* returns one community per node for a graph without edges).
MergedCommunities(U) ==
    [exc |-> "none",
     results |-> {P \in Partitions(Nodes(U)) :
                     \A b \in P : \E c \in ConnectedComponents(U) : b \subseteq c}]

\* detect_communities, lines 136-173: the branch of each method string;
\* louvain gives best_partition or, on ImportError, greedy modularity.
DetectedCommunities(method, undirected) ==
    IF method = "girvan_newman" THEN GirvanNewmanFirst(undirected)
    ELSE IF method = "greedy_modularity" THEN MergedCommunities(undirected)
    ELSE IF method = "label_propagation" THEN MergedCommunities(undirected)
    ELSE IF method = "louvain" THEN MergedCommunities(undirected)
    ELSE GirvanNewmanFirst(undirected)

\* The list of lists returned is built from disjoint sets, each listed
\* once: it is modelled by the set of the communities, each the set of its
\* members, the orders of the lists being left out.
detect_communities(method) ==
    LET undirected  == ToUndirected(graph)
        communities == DetectedCommunities(method, undirected)
    IN  /\ graph' = graph
        /\ IF communities.exc # "none"
           THEN last' = Raised("detect_communities", <<method>>, communities.exc)
           ELSE \E found \in communities.results :
                    last' = Returned("detect_communities", <<method>>, "list", found)

(* --------------------------- specification ---------------------------- *)

\* The attribute dictionaries the calls of Spec, which vary the attributes
\* of the relationships, are made with.
EdgeAttrInputs ==
    {None, Some([type |-> "Family"])}

\* The attribute dictionaries the calls of SpecUsers, which vary the
\* attributes of the users, are made with.
UserAttrInputs ==
    {None, Some([name |-> "Nick", age |-> 30])}

UpdateAttrInputs ==
    {[age |-> 30], [name |-> "Nick"]}

\* The model stops adding relationships at MaxEdges; overwriting goes on.
EdgeRoom(u, v, max) ==
    HasEdge(graph, u, v) \/ Cardinality(Edges(graph)) < max

Init ==
    /\ graph = EmptyGraph
    /\ last = Call("init", FALSE)

AddUser == \E u \in AttrHandles : add_user(u, None)

RemoveUser == \E u \in AttrHandles : remove_user(u)

AddFriendship ==
    \E u \in AttrHandles, v \in AttrHandles, a \in EdgeAttrInputs :
        /\ FriendshipEndpointsKnown(graph, u, v) => EdgeRoom(u, v, MaxEdges)
        /\ add_friendship(u, v, a)

RemoveFriendship ==
    \E u \in AttrHandles, v \in AttrHandles : remove_friendship(u, v)

UpdateUserAttributes ==
    \E u \in AttrHandles : update_user_attributes(u, [age |-> 30])

Next ==
    \/ AddUser
    \/ RemoveUser
    \/ AddFriendship
    \/ RemoveFriendship
    \/ UpdateUserAttributes

Spec == Init /\ [][Next]_vars

\* The calls of SpecUsers: users added and updated with the attributes of
\* UserAttrInputs and UpdateAttrInputs, relationships with the defaults.
UAddUser == \E u \in AttrHandles, a \in UserAttrInputs : add_user(u, a)

URemoveUser == \E u \in AttrHandles : remove_user(u)

UAddFriendship ==
    \E u \in AttrHandles, v \in AttrHandles :
        /\ FriendshipEndpointsKnown(graph, u, v) => EdgeRoom(u, v, MaxEdges)
        /\ add_friendship(u, v, None)

URemoveFriendship ==
    \E u \in AttrHandles, v \in AttrHandles : remove_friendship(u, v)

UUpdateUserAttributes ==
    \E u \in AttrHandles, a \in UpdateAttrInputs : update_user_attributes(u, a)

NextUsers ==
    \/ UAddUser
    \/ URemoveUser
    \/ UAddFriendship
    \/ URemoveFriendship
    \/ UUpdateUserAttributes

SpecUsers == Init /\ [][NextUsers]_vars

\* The calls of SpecPath and SpecRecommend: the relationships of four users
\* built with the default attributes, and one query on them.
QAddUser == \E u \in Handles : add_user(u, None)

QRemoveUser == \E u \in Handles : remove_user(u)

QAddFriendship ==
    \E u \in Handles, v \in Handles :
        /\ FriendshipEndpointsKnown(graph, u, v) => EdgeRoom(u, v, MaxQueryEdges)
        /\ add_friendship(u, v, None)

QRemoveFriendship == \E u \in Handles, v \in Handles : remove_friendship(u, v)

ShortestPath == \E u \in Handles, v \in Handles : shortest_path(u, v)

RecommendFriends == \E u \in Handles : recommend_friends(u)

NextPath ==
    \/ QAddUser
    \/ QRemoveUser
    \/ QAddFriendship
    \/ QRemoveFriendship
    \/ ShortestPath

SpecPath == Init /\ [][NextPath]_vars

NextRecommend ==
    \/ QAddUser
    \/ QRemoveUser
    \/ QAddFriendship
    \/ QRemoveFriendship
    \/ RecommendFriends

SpecRecommend == Init /\ [][NextRecommend]_vars

\* The calls of SpecRank: five users, with relationships drawn from
\* RankPairs, so that one user can have two candidates with different
\* numbers of mutual friends, and recommend_friends on them.
RankHandles == {"A", "B", "C", "D", "E"}

RankPairs ==
    {<<"A", "B">>, <<"A", "C">>, <<"B", "D">>, <<"C", "D">>, <<"C", "E">>,
     <<"B", "A">>, <<"A", "A">>, <<"A", "E">>, <<"B", "C">>}

KAddUser == \E u \in RankHandles : add_user(u, None)

KRemoveUser == \E u \in RankHandles : remove_user(u)

KAddFriendship == \E e \in RankPairs : add_friendship(e[1], e[2], None)

KRemoveFriendship == \E e \in RankPairs : remove_friendship(e[1], e[2])

KRecommendFriends == \E u \in RankHandles \cup {"F"} : recommend_friends(u)

NextRank ==
    \/ KAddUser
    \/ KRemoveUser
    \/ KAddFriendship
    \/ KRemoveFriendship
    \/ KRecommendFriends

SpecRank == Init /\ [][NextRank]_vars

\* The calls of SpecAnalytics: every graph of three users, relationships
\* with the default attributes, and the analytics calls on them.
MAddUser == \E u \in AttrHandles : add_user(u, None)

MRemoveUser == \E u \in AttrHandles : remove_user(u)

MAddFriendship ==
    \E u \in AttrHandles, v \in AttrHandles : add_friendship(u, v, None)

MRemoveFriendship ==
    \E u \in AttrHandles, v \in AttrHandles : remove_friendship(u, v)

GetUserCentrality == \E u \in AttrHandles : get_user_centrality(u)

CalculateInfluenceScore == \E u \in AttrHandles : calculate_influence_score(u)

NextAnalytics ==
    \/ MAddUser
    \/ MRemoveUser
    \/ MAddFriendship
    \/ MRemoveFriendship
    \/ get_density
    \/ get_centrality_measures
    \/ GetUserCentrality
    \/ CalculateInfluenceScore

SpecAnalytics == Init /\ [][NextAnalytics]_vars

\* The calls of SpecCommunity: every graph of three users, relationships
\* with the default attributes, and the calls that work on the connected
\* components of the undirected copy.
\* The method strings: the four the code knows and one it does not.
Methods ==
    {"girvan_newman", "greedy_modularity", "label_propagation", "louvain", "spectral"}

DetectCommunities == \E method \in Methods : detect_communities(method)

NextCommunity ==
    \/ MAddUser
    \/ MRemoveUser
    \/ MAddFriendship
    \/ MRemoveFriendship
    \/ get_connectivity_data
    \/ DetectCommunities

SpecCommunity == Init /\ [][NextCommunity]_vars

\* The calls of SpecSpread: four users, relationships drawn from
\* SpreadPairs (a chain of three hops with a shortcut, an edge back to its
\* start and a self-relationship), and simulate_information_spread on
\* them.
SpreadPairs ==
    {<<"A", "B">>, <<"B", "C">>, <<"C", "D">>, <<"A", "C">>, <<"D", "A">>, <<"B", "B">>}

Probabilities == {Frac(0, 1), Frac(1, 2), Frac(1, 1)}

SAddUser == \E u \in Handles : add_user(u, None)

SRemoveUser == \E u \in Handles : remove_user(u)

SAddFriendship == \E e \in SpreadPairs : add_friendship(e[1], e[2], None)

SRemoveFriendship == \E e \in SpreadPairs : remove_friendship(e[1], e[2])

SimulateInformationSpread ==
    \E start_user \in Handles, probability \in Probabilities,
       iterations \in 0..MaxIterations :
        simulate_information_spread(start_user, probability, iterations)

NextSpread ==
    \/ SAddUser
    \/ SRemoveUser
    \/ SAddFriendship
    \/ SRemoveFriendship
    \/ SimulateInformationSpread

SpecSpread == Init /\ [][NextSpread]_vars

\* The calls of SpecReadOnly: three users, one of them also under a name
\* of its own, relationships drawn from ReadPairs, and every call that
\* reads the graph.
ReadPairs == {<<"A", "B">>, <<"B", "A">>, <<"B", "C">>, <<"C", "C">>}

CommunityInputs ==
    {<<>>, <<{"A", "B"}, {"C"}>>, <<{"A"}, {}, {"B", "C"}>>}

SearchTerms == {"", "a", "IC"}

RAddUser ==
    \/ \E u \in AttrHandles : add_user(u, None)
    \/ add_user("C", Some([name |-> "Nick"]))

RRemoveUser == \E u \in AttrHandles : remove_user(u)

RAddFriendship == \E e \in ReadPairs : add_friendship(e[1], e[2], None)

RRemoveFriendship == \E e \in ReadPairs : remove_friendship(e[1], e[2])

RGetUserCentrality == \E u \in AttrHandles : get_user_centrality(u)

RCalculateInfluenceScore == \E u \in AttrHandles : calculate_influence_score(u)

RDetectCommunities == \E method \in Methods : detect_communities(method)

RGetCommunityMetrics ==
    \E communities \in CommunityInputs : get_community_metrics(communities)

RSimulateInformationSpread ==
    \E start_user \in AttrHandles, probability \in Probabilities,
       iterations \in {1, MaxIterations} :
        simulate_information_spread(start_user, probability, iterations)

RShortestPath == \E u \in AttrHandles, v \in AttrHandles : shortest_path(u, v)

RRecommendFriends == \E u \in AttrHandles : recommend_friends(u)

RSearchUsers == \E search_term \in SearchTerms : search_users(search_term)

NextReadOnly ==
    \/ RAddUser
    \/ RRemoveUser
    \/ RAddFriendship
    \/ RRemoveFriendship
    \/ get_density
    \/ get_avg_clustering
    \/ get_avg_path_length
    \/ get_num_connected_components
    \/ get_degree_assortativity
    \/ get_connectivity_data
    \/ get_centrality_measures
    \/ RGetUserCentrality
    \/ RDetectCommunities
    \/ RGetCommunityMetrics
    \/ RCalculateInfluenceScore
    \/ calculate_influence_scores
    \/ RSimulateInformationSpread
    \/ RShortestPath
    \/ RRecommendFriends
    \/ RSearchUsers

SpecReadOnly == Init /\ [][NextReadOnly]_vars

(* ---- the social network and the rounds of simulate_information_spread ---- *)

\* The relationships the calls of SpecRounds are made with.
RoundPairs ==
    {<<"A", "B">>, <<"B", "C">>, <<"C", "D">>, <<"A", "C">>, <<"B", "A">>}

TAddUser == ~InProgress /\ \E u \in Handles : add_user(u, None)

TRemoveUser == ~InProgress /\ \E u \in Handles : remove_user(u)

TAddFriendship ==
    ~InProgress /\ \E e \in RoundPairs : add_friendship(e[1], e[2], None)

TRemoveFriendship ==
    ~InProgress /\ \E e \in RoundPairs : remove_friendship(e[1], e[2])

SimulateInformationSpreadEnter ==
    \E start_user \in Handles, probability \in Probabilities,
       iterations \in 0..MaxIterations :
        simulate_information_spread_enter(start_user, probability, iterations)

NextRounds ==
    \/ TAddUser
    \/ TRemoveUser
    \/ TAddFriendship
    \/ TRemoveFriendship
    \/ SimulateInformationSpreadEnter
    \/ simulate_information_spread_round
    \/ simulate_information_spread_return

SpecRounds == Init /\ [][NextRounds]_vars

\* The interpreter goes on with a call in progress: a pass of the loop or
\* the return that can be made is made.
SpecRoundsFair ==
    /\ SpecRounds
    /\ WF_vars(simulate_information_spread_round)
    /\ WF_vars(simulate_information_spread_return)

(* ---------- the social network, path length and community metrics ---------- *)

\* The relationships the calls of SpecMetrics are made with.
MetricPairs ==
    {<<"A", "B">>, <<"B", "A">>, <<"B", "C">>, <<"A", "C">>, <<"C", "D">>, <<"A", "A">>}

\* Lists of communities that are not partitions of the users: with empty
\* communities, with a part of the users, with a user twice.
OtherCommunityInputs ==
    {<<{}>>,
     <<{}, {"A", "B"}, {}, {"C"}>>,
     <<{"A"}, {}, {"B", "C", "D"}>>,
     <<{"A", "B"}, {"B", "C"}>>}

VAddUser == \E u \in Handles : add_user(u, None)

VRemoveUser == \E u \in Handles : remove_user(u)

VAddFriendship == \E e \in MetricPairs : add_friendship(e[1], e[2], None)

VRemoveFriendship == \E e \in MetricPairs : remove_friendship(e[1], e[2])

\* community_metrics for a list of communities that splits the users, as
\* detect_communities returns them, in any order of the list.
VGetCommunityMetricsOfPartition ==
    \E partition \in Partitions(Nodes(graph)) :
        \E communities \in Orderings(partition) : get_community_metrics(communities)

VGetCommunityMetrics ==
    \E communities \in OtherCommunityInputs : get_community_metrics(communities)

NextMetrics ==
    \/ VAddUser
    \/ VRemoveUser
    \/ VAddFriendship
    \/ VRemoveFriendship
    \/ get_avg_path_length
    \/ VGetCommunityMetricsOfPartition
    \/ VGetCommunityMetrics

SpecMetrics == Init /\ [][NextMetrics]_vars

(* ------------------------ properties of Spec -------------------------- *)

\* C1: a mutation call that fails with NotFound (add_friendship with src or
\* dst not a user, remove_user of an absent handle, remove_friendship of an
\* absent edge) raises to the caller, and a call that raises leaves users,
\* edges and all attributes exactly as they were.
C1_FailedCallRaisesAndKeepsGraph ==
    [][/\ last'.raised => graph' = graph
       /\ last'.op = "add_friendship" =>
            \A u \in AttrHandles, v \in AttrHandles, a \in EdgeAttrInputs :
              ((u \notin Nodes(graph) \/ v \notin Nodes(graph)) /\ add_friendship(u, v, a))
                  => /\ last'.raised
                     /\ <<u, v>> \notin Edges(graph')
                     /\ Nodes(graph') = Nodes(graph)
       /\ last'.op = "remove_user" =>
            \A u \in AttrHandles :
              (u \notin Nodes(graph) /\ remove_user(u)) => last'.raised
       /\ last'.op = "remove_friendship" =>
            \A u \in AttrHandles, v \in AttrHandles :
              (<<u, v>> \notin Edges(graph) /\ remove_friendship(u, v)) => last'.raised
      ]_vars

\* A failed add_friendship on a graph that has users and a relationship.
C1_Witness ==
    /\ last.op = "add_friendship"
    /\ last.raised
    /\ Nodes(graph) # {}
    /\ Edges(graph) # {}

\* C2: both endpoints of every edge are users, in every state, and
\* add_friendship never changes the set of users.
NoDanglingEdge(G) ==
    \A e \in Edges(G) : e[1] \in Nodes(G) /\ e[2] \in Nodes(G)

C2_EdgesJoinUsers ==
    /\ NoDanglingEdge(graph)
    /\ [][/\ NoDanglingEdge(graph')
          /\ last'.op = "add_friendship" => Nodes(graph') = Nodes(graph)]_vars

\* A user was removed and a relationship is left.
C2_Witness ==
    /\ last.op = "remove_user"
    /\ ~last.raised
    /\ Edges(graph) # {}

\* C3: a successful remove_user(h) removes h and every edge with h as source
\* or target; every other user and edge and their attributes are as before.
C3_RemoveUserFrame ==
    [][\A h \in AttrHandles :
          (last'.op = "remove_user" /\ ~last'.raised /\ remove_user(h)) =>
              /\ Nodes(graph') = Nodes(graph) \ {h}
              /\ Edges(graph') = {e \in Edges(graph) : e[1] # h /\ e[2] # h}
              /\ \A m \in Nodes(graph') : graph'.node[m] = graph.node[m]
              /\ \A e \in Edges(graph') : graph'.adj[e] = graph.adj[e]
      ]_vars

\* A user was removed; a relationship between two other users is left.
C3_Witness ==
    /\ last.op = "remove_user"
    /\ ~last.raised
    /\ Cardinality(Nodes(graph)) = 2
    /\ \E e \in Edges(graph) : e[1] # e[2]

\* C4: a successful add_friendship(src, dst) creates or changes only the
\* edge src -> dst: the users, their attributes and every other edge, the
\* reverse edge dst -> src among them, are unchanged.
C4_AddFriendshipFrame ==
    [][\A u \in AttrHandles, v \in AttrHandles, a \in EdgeAttrInputs :
          (/\ last'.op = "add_friendship"
           /\ ~last'.raised
           /\ <<u, v>> \in Edges(graph')
           /\ add_friendship(u, v, a)) =>
              /\ graph'.node = graph.node
              /\ Edges(graph') = Edges(graph) \cup {<<u, v>>}
              /\ \A e \in Edges(graph) \ {<<u, v>>} : graph'.adj[e] = graph.adj[e]
      ]_vars

\* A relationship was added and there is an edge whose reverse is absent.
C4_Witness ==
    /\ last.op = "add_friendship"
    /\ ~last.raised
    /\ \E e \in Edges(graph) : e[1] # e[2] /\ <<e[2], e[1]>> \notin Edges(graph)

\* The attributes add_friendship is called with: the defaults when none
\* are given.
GivenEdgeAttrs(a) ==
    IF a = None THEN [type |-> "Friend", strength |-> 5] ELSE TheValue(a)

\* C5 as stated: add_friendship on a pair that has an edge leaves exactly
\* the attributes of the latest call on it.
C5_Original ==
    [][\A u \in AttrHandles, v \in AttrHandles, a \in EdgeAttrInputs :
          (last'.op = "add_friendship" /\ <<u, v>> \in Edges(graph)
             /\ add_friendship(u, v, a)) =>
              /\ Edges(graph') = Edges(graph)
              /\ graph'.adj[<<u, v>>] = GivenEdgeAttrs(a)
      ]_vars

\* C5 as amended: add_friendship on a pair that has an edge keeps the one
\* edge and updates its attributes: every attribute the latest call names
\* (type and strength when it gives none) has the latest value, every
\* other attribute of the earlier edge keeps its value.
C5_AddFriendshipUpdatesEdge ==
    [][\A u \in AttrHandles, v \in AttrHandles, a \in EdgeAttrInputs :
          (last'.op = "add_friendship" /\ <<u, v>> \in Edges(graph)
             /\ add_friendship(u, v, a)) =>
              LET old == graph.adj[<<u, v>>]
                  new == graph'.adj[<<u, v>>]
                  given == GivenEdgeAttrs(a)
              IN  /\ Edges(graph') = Edges(graph)
                  /\ DOMAIN new = DOMAIN old \cup DOMAIN given
                  /\ \A k \in DOMAIN given : new[k] = given[k]
                  /\ \A k \in DOMAIN old \ DOMAIN given : new[k] = old[k]
      ]_vars

\* An edge that was added with the defaults and added again with a type
\* only: the strength of the first call is still on it.
C5_Witness ==
    /\ last.op = "add_friendship"
    /\ ~last.raised
    /\ \E e \in Edges(graph) : graph.adj[e] = [type |-> "Family", strength |-> 5]

(* ---------------------- properties of SpecUsers ----------------------- *)

\* The attributes add_user is called with, name set to the handle when the
\* call gives no name.
GivenUserAttrs(h, a) ==
    LET d == IF a = None THEN EmptyDict ELSE TheValue(a)
    IN  IF "name" \in DOMAIN d
        THEN d
        ELSE [k \in DOMAIN d \cup {"name"} |-> IF k = "name" THEN h ELSE d[k]]

\* C6 as stated: add_user on an existing handle leaves exactly the
\* attributes of the latest call on it.
C6_Original ==
    [][\A h \in AttrHandles, a \in UserAttrInputs :
          (last'.op = "add_user" /\ h \in Nodes(graph) /\ add_user(h, a)) =>
              graph'.node[h] = GivenUserAttrs(h, a)
      ]_vars

\* C6 as amended: add_user on an existing handle updates the user's
\* attributes: every attribute the latest call names, and name (the handle
\* when the call gives no name), has the latest value; every other
\* attribute set earlier keeps its value.
C6_AddUserUpdatesAttributes ==
    [][\A h \in AttrHandles, a \in UserAttrInputs :
          (last'.op = "add_user" /\ h \in Nodes(graph) /\ add_user(h, a)) =>
              LET old == graph.node[h]
                  new == graph'.node[h]
                  given == GivenUserAttrs(h, a)
              IN  /\ DOMAIN new = DOMAIN old \cup DOMAIN given
                  /\ \A k \in DOMAIN given : new[k] = given[k]
                  /\ \A k \in DOMAIN old \ DOMAIN given : new[k] = old[k]
                  /\ Edges(graph') = Edges(graph)
      ]_vars

\* A user added with a name and an age and added again with neither: the
\* name is the handle again, the age of the first call is still there.
C6_Witness ==
    /\ last.op = "add_user"
    /\ \E h \in Nodes(graph) : graph.node[h] = [name |-> h, age |-> 30]
    /\ \E h \in Nodes(graph) : graph.node[h] = [name |-> "Nick", age |-> 30]

\* C7: every user carries a name in every state, and right after
\* add_user(h, attrs) with no name in attrs the name of h is h.
EveryUserNamed(G) ==
    \A u \in Nodes(G) : "name" \in DOMAIN G.node[u]

C7_EveryUserHasName ==
    /\ EveryUserNamed(graph)
    /\ [][/\ EveryUserNamed(graph')
          /\ \A h \in AttrHandles, a \in UserAttrInputs :
               (/\ last'.op = "add_user"
                /\ a = None \/ "name" \notin DOMAIN TheValue(a)
                /\ add_user(h, a))
                   => graph'.node[h].name = h
         ]_vars

\* Attributes were updated; one user is named by its handle, another has
\* the name it was given, and there is a relationship.
C7_Witness ==
    /\ last.op = "update_user_attributes"
    /\ ~last.raised
    /\ \E h \in Nodes(graph) : graph.node[h].name = h
    /\ \E h \in Nodes(graph) : graph.node[h].name = "Nick"
    /\ Edges(graph) # {}

\* The edges into and out of the handle h that the graph G holds.
EdgesAt(G, h) == {e \in Edges(G) : e[1] = h \/ e[2] = h}

\* C29: removal is not undone by re-creation. remove_user(h) takes every
\* edge into and out of h with it and the graph keeps nothing of a handle
\* that is not a user; the add_user(h, attrs) that makes h a user again
\* gives it the attributes of that call only (and the handle as name when
\* the call gives none) and no edge; an edge into or out of h appears only
\* by a successful add_friendship.
C29_RecreatedUserStartsFresh ==
    /\ [](\A h \in AttrHandles : h \notin Nodes(graph) => EdgesAt(graph, h) = {})
    /\ [][\A h \in AttrHandles :
             (last'.op = "remove_user" /\ ~last'.raised /\ remove_user(h)) =>
                 h \notin Nodes(graph') /\ EdgesAt(graph', h) = {}]_vars
    /\ [][\A h \in AttrHandles, a \in UserAttrInputs :
             (last'.op = "add_user" /\ h \notin Nodes(graph) /\ add_user(h, a)) =>
                 /\ graph'.node[h] = GivenUserAttrs(h, a)
                 /\ EdgesAt(graph', h) = {}
                 /\ Edges(graph') = Edges(graph)]_vars
    /\ [][\A h \in AttrHandles :
             ~(EdgesAt(graph', h) \subseteq EdgesAt(graph, h)) =>
                 last'.op = "add_friendship" /\ ~last'.raised]_vars

\* A was added without attributes and is a user with its handle as name
\* and no relationship, while B, which carries attributes, has one to C.
C29_Witness ==
    /\ last.op = "add_user"
    /\ Nodes(graph) = {"A", "B", "C"}
    /\ graph.node["A"] = [name |-> "A"]
    /\ graph.node["B"] = [name |-> "Nick", age |-> 30]
    /\ Edges(graph) = {<<"B", "C">>}

(* ----------------------- properties of SpecPath ----------------------- *)

\* The sequences of at most n users in which every user has an edge to the
\* next one, from s to d.
DirectedPaths(G, s, d, n) ==
    {p \in UNION {[1..m -> Nodes(G)] : m \in 1..n} :
        /\ p[1] = s
        /\ p[Len(p)] = d
        /\ \A i \in 1..(Len(p) - 1) : <<p[i], p[i + 1]>> \in Edges(G)}

\* The users that can be reached from those of S along directed edges: the
\* least set that holds S and the target of every edge leaving it.
RECURSIVE ReachableFrom(_, _)
ReachableFrom(G, S) ==
    LET T == S \cup {e[2] : e \in {f \in Edges(G) : f[1] \in S}}
    IN  IF T = S THEN S ELSE ReachableFrom(G, T)

\* s and d are users and d can be reached from s along directed edges.
Reachable(G, s, d) ==
    /\ s \in Nodes(G)
    /\ d \in Nodes(G)
    /\ d \in ReachableFrom(G, {s})

\* C8: for users src and dst with dst reachable from src, shortest_path
\* returns a sequence from src to dst with a directed edge between every
\* two consecutive handles, and no directed path from src to dst has fewer
\* edges.
C8_ShortestPathIsShortest ==
    (last.op = "shortest_path" /\ Reachable(graph, last.args[1], last.args[2])) =>
        /\ last.ret.kind = "list"
        /\ LET p == last.ret.val
           IN  /\ Len(p) >= 1
               /\ p[1] = last.args[1]
               /\ p[Len(p)] = last.args[2]
               /\ \A i \in 1..(Len(p) - 1) : <<p[i], p[i + 1]>> \in Edges(graph)
               /\ DirectedPaths(graph, last.args[1], last.args[2], Len(p) - 1) = {}

\* The scenario of the specification, with the edge C -> A besides: the
\* answer for (A, C) is [A, B, C], the edge C -> A is not followed backwards.
C8_Witness ==
    /\ last.op = "shortest_path"
    /\ last.args = <<"A", "C">>
    /\ last.ret = [kind |-> "list", val |-> <<"A", "B", "C">>]
    /\ {<<"A", "B">>, <<"B", "C">>, <<"C", "A">>} \subseteq Edges(graph)

\* C9: shortest_path never raises; it returns a sequence exactly when src
\* and dst are users and a directed path leads from src to dst, and a
\* message string otherwise.
C9_ShortestPathReportsFailure ==
    last.op = "shortest_path" =>
        /\ ~last.raised
        /\ last.ret.kind \in {"list", "str"}
        /\ last.ret.kind = "list" <=> Reachable(graph, last.args[1], last.args[2])

\* A message for two users joined only against the direction asked for.
C9_Witness ==
    /\ last.op = "shortest_path"
    /\ last.ret.kind = "str"
    /\ last.args[1] \in Nodes(graph)
    /\ last.args[2] \in Nodes(graph)
    /\ <<last.args[2], last.args[1]>> \in Edges(graph)

(* -------------------- properties of SpecRecommend --------------------- *)

\* C10: the result of recommend_friends(u) holds neither u nor a direct
\* successor of u.
C10_RecommendationsExcludeFriends ==
    last.op = "recommend_friends" =>
        \A i \in 1..Len(last.ret.val) :
            /\ last.ret.val[i][1] # last.args[1]
            /\ <<last.args[1], last.ret.val[i][1]>> \notin Edges(graph)

\* A recommendation for a user with a self-relationship and a mutual
\* relationship.
C10_Witness ==
    /\ last.op = "recommend_friends"
    /\ Len(last.ret.val) >= 1
    /\ <<last.args[1], last.args[1]>> \in Edges(graph)
    /\ \E f \in Nodes(graph) \ {last.args[1]} :
          /\ <<last.args[1], f>> \in Edges(graph)
          /\ <<f, last.args[1]>> \in Edges(graph)

(* ----------------------- properties of SpecRank ----------------------- *)

\* The users two directed hops from user that are neither user nor one of
\* its direct successors.
TwoHopCandidates(G, user) ==
    {c \in Nodes(G) :
        /\ c # user
        /\ <<user, c>> \notin Edges(G)
        /\ \E f \in Nodes(G) : <<user, f>> \in Edges(G) /\ <<f, c>> \in Edges(G)}

\* The direct successors of user that have an edge to c.
MutualCount(G, user, c) ==
    Cardinality({f \in Nodes(G) : <<user, f>> \in Edges(G) /\ <<f, c>> \in Edges(G)})

\* C11: recommend_friends(u) returns exactly one pair (c, k) for every user
\* c two directed hops from u that is neither u nor a direct successor of
\* u, k being the number of direct successors of u with an edge to c; the
\* pairs are in non-increasing order of k; an unknown u gives the empty
\* list; for the edges A -> B, B -> C alone the answer for A is [(C, 1)].
C11_RecommendationsCountMutualFriends ==
    last.op = "recommend_friends" =>
        LET u == last.args[1]
            r == last.ret.val
        IN  /\ ~last.raised
            /\ last.ret.kind = "list"
            /\ u \notin Nodes(graph) => r = <<>>
            /\ u \in Nodes(graph) =>
                  /\ {r[i][1] : i \in 1..Len(r)} = TwoHopCandidates(graph, u)
                  /\ Len(r) = Cardinality(TwoHopCandidates(graph, u))
                  /\ \A i \in 1..Len(r) : r[i][2] = MutualCount(graph, u, r[i][1])
                  /\ \A i \in 1..(Len(r) - 1) : r[i][2] >= r[i + 1][2]
            /\ (u = "A" /\ Edges(graph) = {<<"A", "B">>, <<"B", "C">>}) =>
                  r = <<<<"C", 1>>>>

\* An answer with two candidates, the first with two mutual friends and
\* the second with one, for a user that also has a self-relationship.
C11_Witness ==
    /\ last.op = "recommend_friends"
    /\ last.args = <<"A">>
    /\ last.ret.val = <<<<"D", 2>>, <<"E", 1>>>>
    /\ <<"A", "A">> \in Edges(graph)

(* -------------------- properties of SpecAnalytics --------------------- *)

\* The float x lies in [0, 1].
InUnitInterval(x) == 0 <= x.num /\ x.num <= x.den

\* C12: the density of every graph the mutation calls can build lies in
\* [0, 1]: the number of directed edges never exceeds n * (n - 1) for n
\* users, and the density is 0 for at most one user.
C12_DensityInUnitInterval ==
    /\ Cardinality(Edges(graph)) <= Cardinality(Nodes(graph)) * (Cardinality(Nodes(graph)) - 1)
    /\ last.op = "get_density" =>
          /\ InUnitInterval(last.ret.val)
          /\ Cardinality(Nodes(graph)) <= 1 => last.ret.val = Frac(0, 1)

\* The density of two users with relationships in both directions and one
\* self-relationship is 3/2.
C12_Witness ==
    /\ last.op = "get_density"
    /\ Edges(graph) = {<<"A", "B">>, <<"B", "A">>, <<"A", "A">>}
    /\ Nodes(graph) = {"A", "B"}
    /\ last.ret.val = Frac(3, 2)

\* C13: the degree centrality get_centrality_measures reports lies in
\* [0, 1] for every user of every graph the mutation calls can build, the
\* degree counted never exceeding n - 1 for n users, also where two users
\* have relationships in both directions.
C13_DegreeCentralityInUnitInterval ==
    last.op = "get_centrality_measures" =>
        \A v \in DOMAIN last.ret.val :
            /\ InUnitInterval(last.ret.val[v].degree_centrality)
            /\ Degree(graph, v) <= Cardinality(Nodes(graph)) - 1

\* Two users with relationships in both directions and no self-relationship:
\* the degree centrality of each is 2.
C13_Witness ==
    /\ last.op = "get_centrality_measures"
    /\ Nodes(graph) = {"A", "B"}
    /\ Edges(graph) = {<<"A", "B">>, <<"B", "A">>}
    /\ last.ret.val["A"].degree_centrality = Frac(2, 1)

\* 3/10 d + 3/10 e + 3/10 b + 1/10 c, over the weight sum 1.
WeightedCentrality(c) ==
    Frac(3 * c.degree_centrality.num * c.eigenvector_centrality.den
             * c.betweenness_centrality.den * c.closeness_centrality.den
         + 3 * c.eigenvector_centrality.num * c.degree_centrality.den
             * c.betweenness_centrality.den * c.closeness_centrality.den
         + 3 * c.betweenness_centrality.num * c.degree_centrality.den
             * c.eigenvector_centrality.den * c.closeness_centrality.den
         + c.closeness_centrality.num * c.degree_centrality.den
             * c.eigenvector_centrality.den * c.betweenness_centrality.den,
         10 * c.degree_centrality.den * c.eigenvector_centrality.den
            * c.betweenness_centrality.den * c.closeness_centrality.den)

\* C14: for every user of every graph the mutation calls can build, the
\* influence score is 0.3 degree + 0.3 eigenvector + 0.3 betweenness +
\* 0.1 closeness of the user's centrality record, divided by the weight
\* sum 1.0, and lies in [0, 1].
C14_InfluenceScoreInUnitInterval ==
    (last.op = "calculate_influence_score" /\ last.args[1] \in Nodes(graph)) =>
        /\ \E m \in CentralityMeasures(graph) :
              last.ret.val = WeightedCentrality(m[last.args[1]])
        /\ InUnitInterval(last.ret.val)

\* The score 13/10 of user A with relationships in both directions with B
\* and C and a self-relationship, reached with the eigenvector score 0.
C14_Witness ==
    /\ last.op = "calculate_influence_score"
    /\ last.args = <<"A">>
    /\ Edges(graph) = {<<"A", "A">>, <<"A", "B">>, <<"B", "A">>, <<"A", "C">>, <<"C", "A">>}
    /\ last.ret.val = Frac(13, 10)

\* C15: for a handle h that is not a user, also when there is no user at
\* all, get_user_centrality(h) returns the record of four scores 0.0 and
\* calculate_influence_score(h) returns 0.0; neither call raises, neither
\* adds h or changes the graph otherwise.
C15_UnknownHandleScoresZero ==
    [][\A h \in AttrHandles :
          (/\ last'.op \in {"get_user_centrality", "calculate_influence_score"}
           /\ last'.args = <<h>>
           /\ h \notin Nodes(graph)) =>
              /\ graph' = graph
              /\ ~last'.raised
              /\ last'.op = "get_user_centrality" =>
                    /\ DOMAIN last'.ret.val = {"degree_centrality", "eigenvector_centrality",
                                               "betweenness_centrality", "closeness_centrality"}
                    /\ \A k \in DOMAIN last'.ret.val : last'.ret.val[k] = Frac(0, 1)
              /\ last'.op = "calculate_influence_score" => last'.ret.val = Frac(0, 1)]_vars

\* The all-zero record for a handle that is not among the two users of a
\* graph with a relationship.
C15_Witness ==
    /\ last.op = "get_user_centrality"
    /\ last.args = <<"C">>
    /\ Nodes(graph) = {"A", "B"}
    /\ Edges(graph) = {<<"A", "B">>}
    /\ last.ret.val.degree_centrality = Frac(0, 1)

(* -------------------- properties of SpecCommunity --------------------- *)

\* C16: get_connectivity_data on the graph without users does not fail; it
\* returns a record with 0 components, largest component size 0, no
\* component sizes and the percentage "0.00%".
C16_ConnectivityOfEmptyGraph ==
    (last.op = "get_connectivity_data" /\ Nodes(graph) = {}) =>
        /\ ~last.raised
        /\ last.ret.kind = "dict"
        /\ last.ret.val.NumberOfComponents = 0
        /\ last.ret.val.LargestComponentSize = 0
        /\ last.ret.val.ComponentSizes = <<>>
        /\ last.ret.val.LargestComponentPercentage = [int |-> 0, frac |-> 0, suffix |-> "%"]

\* get_connectivity_data on the graph without users, after a user was
\* added and removed again: NetworkXPointlessConcept escapes.
C16_Witness ==
    /\ last.op = "get_connectivity_data"
    /\ Nodes(graph) = {}
    /\ last.raised
    /\ last.ret.val = "NetworkXPointlessConcept"

\* C17: for every graph the mutation calls can build (without users,
\* without edges, with self-relationships, connected or not) and every
\* method string, detect_communities does not fail and returns a partition
\* of the users: every user is in exactly one returned community and no
\* community holds a handle that is not a user.
C17_CommunitiesPartitionUsers ==
    last.op = "detect_communities" =>
        /\ ~last.raised
        /\ last.ret.kind = "list"
        /\ \A u \in Nodes(graph) :
              Cardinality({c \in last.ret.val : u \in c}) = 1
        /\ \A c \in last.ret.val : c \subseteq Nodes(graph)

\* detect_communities with the default method on two users, one with a
\* self-relationship and no other edge: StopIteration escapes.
C17_Witness ==
    /\ last.op = "detect_communities"
    /\ last.args = <<"girvan_newman">>
    /\ Nodes(graph) = {"A", "B"}
    /\ Edges(graph) = {<<"A", "A">>}
    /\ last.raised
    /\ last.ret.val = "StopIteration"

\* C23: detect_communities("girvan_newman") returns the first partition
\* Girvan-Newman yields: when the undirected projection has an edge
\* between two different users, the call returns a partition of the users
\* with exactly one community more than the projection has connected
\* components, and every community is connected in the projection.
C23_GirvanNewmanFirstSplit ==
    LET undirected == ToUndirected(graph)
    IN  (/\ last.op = "detect_communities"
         /\ last.args = <<"girvan_newman">>
         /\ \E e \in Edges(graph) : e[1] # e[2]) =>
            /\ ~last.raised
            /\ last.ret.val \in Partitions(Nodes(graph))
            /\ Cardinality(last.ret.val) =
                   Cardinality(ConnectedComponents(undirected)) + 1
            /\ \A c \in last.ret.val :
                   Cardinality(ConnectedComponents(Subgraph(undirected, c))) = 1

\* The triangle A - B - C: two edges have to be removed before the number
\* of components grows, and the result is a pair and a single user.
C23_Witness ==
    /\ last.op = "detect_communities"
    /\ last.args = <<"girvan_newman">>
    /\ ~last.raised
    /\ UndirectedEdges(ToUndirected(graph)) = {{"A", "B"}, {"B", "C"}, {"A", "C"}}
    /\ last.ret.val = {{"A", "B"}, {"C"}}

(* ---------------------- properties of SpecSpread ---------------------- *)

\* C18: simulate_information_spread with probability 1.0 has one possible
\* result; with at least as many iterations as there are users, the users
\* reported informed are exactly those reachable from the seed along
\* directed edges, the seed included: a user reachable only against the
\* direction of the edges stays uninformed.
C18_CertainSpreadReachesForwardSet ==
    (/\ last.op = "simulate_information_spread"
     /\ last.args[1] \in Nodes(graph)
     /\ last.args[2] = Frac(1, 1)) =>
        /\ ~last.raised
        /\ SpreadRounds(graph, [user \in Nodes(graph) |-> user = last.args[1]],
                        last.args[2], last.args[3]) = {last.ret.val}
        /\ last.args[3] >= Cardinality(Nodes(graph)) =>
              /\ DOMAIN last.ret.val = Nodes(graph)
              /\ {u \in Nodes(graph) : last.ret.val[u]} = ReachableFrom(graph, {last.args[1]})

\* The chain B -> C -> D seeded at B with the edge A -> B besides: C and D
\* are informed, A is not.
C18_Witness ==
    /\ last.op = "simulate_information_spread"
    /\ last.args = <<"B", Frac(1, 1), 4>>
    /\ Nodes(graph) = {"A", "B", "C", "D"}
    /\ Edges(graph) = {<<"A", "B">>, <<"B", "C">>, <<"C", "D">>}
    /\ last.ret.val = [u \in {"A", "B", "C", "D"} |-> u # "A"]

\* C19: simulate_information_spread with probability 0.0, a seed that is
\* a user and any number of iterations reports the seed informed and every
\* other user not informed, whatever the draws.
C19_NoSpreadKeepsSeedOnly ==
    (/\ last.op = "simulate_information_spread"
     /\ last.args[1] \in Nodes(graph)
     /\ last.args[2] = Frac(0, 1)) =>
        /\ ~last.raised
        /\ DOMAIN last.ret.val = Nodes(graph)
        /\ \A u \in Nodes(graph) : last.ret.val[u] <=> u = last.args[1]

\* Probability 0.0 with several iterations for a seed that has successors.
C19_Witness ==
    /\ last.op = "simulate_information_spread"
    /\ last.args = <<"A", Frac(0, 1), 3>>
    /\ {<<"A", "B">>, <<"A", "C">>} \subseteq Edges(graph)
    /\ ~last.ret.val["B"]

(* --------------------- properties of SpecReadOnly --------------------- *)

\* The calls that change the graph.
MutationCalls ==
    {"add_user", "remove_user", "add_friendship", "remove_friendship",
     "update_user_attributes"}

\* C20: no analytics call changes the graph: after a call of a metric
\* function, get_centrality_measures, get_user_centrality,
\* detect_communities with any method, get_community_metrics,
\* calculate_influence_score(s), simulate_information_spread,
\* shortest_path, recommend_friends or search_users, the users, the edges
\* and all their attributes are those before the call, whether the call
\* returned or raised.
C20_AnalyticsCallsKeepGraph ==
    [][last'.op \notin MutationCalls => graph' = graph]_vars

\* Girvan-Newman has split the users after removing an edge from its copy
\* of the graph; the graph still has all three relationships.
C20_Witness ==
    /\ last.op = "detect_communities"
    /\ last.args = <<"girvan_newman">>
    /\ ~last.raised
    /\ last.ret.val = {{"A", "B"}, {"C"}}
    /\ Edges(graph) = {<<"A", "B">>, <<"B", "A">>, <<"B", "C">>}

(* ---------------------- properties of SpecRounds ---------------------- *)

\* The users at most k directed hops from the seed, the seed included.
RECURSIVE WithinHops(_, _, _)
WithinHops(G, S, k) ==
    IF k = 0 THEN S
    ELSE WithinHops(G, S \cup UNION {Successors(G, v) : v \in S}, k - 1)

\* C21: the users infected during a round do not propagate in that round:
\* after k passes of the loop, and in the result of a call with k
\* iterations, every informed user is at most k directed hops from the
\* seed, for every probability and every outcome of the draws; with
\* iterations = 0 only the seed is informed.
C21_RoundKStaysWithinKHops ==
    (last.op = "simulate_information_spread" /\ last.args[1] \in Nodes(graph)) =>
        LET rounds == IF InProgress THEN last.ret.rounds ELSE last.args[3]
        IN  /\ InformedUsers(last.ret.val)
                  \subseteq WithinHops(graph, {last.args[1]}, rounds)
            /\ rounds = 0 => InformedUsers(last.ret.val) = {last.args[1]}

\* The chain A -> B -> C -> D seeded at A: after one pass of the loop with
\* a probability that lets the draw succeed, B is informed and C, which B
\* could reach, is not.
C21_Witness ==
    /\ InProgress
    /\ last.args[1] = "A"
    /\ last.ret.rounds = 1
    /\ {<<"A", "B">>, <<"B", "C">>, <<"C", "D">>} \subseteq Edges(graph)
    /\ <<"A", "C">> \notin Edges(graph)
    /\ InformedUsers(last.ret.val) = {"A", "B"}

\* C28: for a seed that is a user, whatever the probability, the number
\* of iterations and the draws: during the run and in the result the
\* dictionary has one entry for every user of the graph, the seed is
\* informed, and every informed user can be reached from the seed along
\* directed edges, source to target; a pass of the loop and the return
\* never turn an informed user back to not informed.
C28_InformedStayWithinForwardReach ==
    /\ []((last.op = "simulate_information_spread" /\ last.args[1] \in Nodes(graph)) =>
              /\ ~last.raised
              /\ DOMAIN last.ret.val = Nodes(graph)
              /\ last.ret.val[last.args[1]]
              /\ InformedUsers(last.ret.val) \subseteq ReachableFrom(graph, {last.args[1]}))
    /\ [][InProgress =>
              /\ last'.op = "simulate_information_spread"
              /\ last'.args = last.args
              /\ InformedUsers(last.ret.val) \subseteq InformedUsers(last'.ret.val)]_vars

\* The result of a call seeded at B with the edges A -> B and B -> C: C
\* was informed in the first pass, A, from which B can be reached, was not.
C28_Witness ==
    /\ last.op = "simulate_information_spread"
    /\ ~InProgress
    /\ last.args = <<"B", Frac(1, 2), 2>>
    /\ {<<"A", "B">>, <<"B", "C">>} \subseteq Edges(graph)
    /\ <<"B", "A">> \notin Edges(graph)
    /\ last.ret.val["C"]
    /\ ~last.ret.val["A"]

(* -------------------- properties of SpecRoundsFair -------------------- *)

\* C22: simulate_information_spread always terminates: a call in progress
\* returns; it makes at most iterations passes of the loop; a pass that
\* informs nobody new is the last one, the next step of the call being its
\* return with the dictionary of that moment, also when informed users
\* still have successors that are not informed and the probability is
\* above 0.
C22_SpreadTerminates ==
    /\ [](InProgress => last.ret.rounds <= last.args[3])
    /\ [][(/\ InProgress
           /\ InProgress'
           /\ last'.ret.val = last.ret.val) => last'.ret.broke]_vars
    /\ [][(InProgress /\ last.ret.broke) =>
              (/\ ~InProgress'
               /\ last'.op = "simulate_information_spread"
               /\ last'.ret.val = last.ret.val)]_vars
    /\ (InProgress ~> ~InProgress)

\* The loop left after its first pass of four, with probability 0.5, while
\* B, a successor of the informed A, is not informed.
C22_Witness ==
    /\ InProgress
    /\ last.args = <<"A", Frac(1, 2), 4>>
    /\ last.ret.rounds = 1
    /\ last.ret.broke
    /\ <<"A", "B">> \in Edges(graph)
    /\ ~last.ret.val["B"]

(* --------------------- properties of SpecMetrics ---------------------- *)

\* The number of edges of a shortest path from s to t in the graph U, in
\* which t can be reached from s.
Hops(U, s, t) ==
    CHOOSE k \in 0..Cardinality(Nodes(U)) :
        /\ t \in WithinHops(U, {s}, k)
        /\ \A j \in 0..(k - 1) : t \notin WithinHops(U, {s}, j)

\* The mean of the shortest-path lengths over the ordered pairs of
\* different users of the connected set S, 0 for a single user.
MeanHops(U, S) ==
    LET pairs == {pr \in S \X S : pr[1] # pr[2]}
    IN  IF pairs = {} THEN Frac(0, 1)
        ELSE Frac(IntSum([pr \in pairs |-> Hops(U, pr[1], pr[2])], pairs),
                  Cardinality(pairs))

EdgesInside(U, community) == {e \in UndirectedEdges(U) : e \subseteq community}

\* C25: in the rows of community_metrics the internal density of a
\* community is the number of edges of the undirected projection with
\* both ends in the community over C(size, 2), and 0 when size < 2; a
\* community of one user has internal density 0 and average clustering 0,
\* also when that user has a self-relationship.
C25_InternalDensityOfCommunity ==
    (last.op = "get_community_metrics" /\ ~last.raised) =>
        LET undirected == ToUndirected(graph)
        IN  \A j \in 1..Len(last.ret.val) :
                LET row       == last.ret.val[j]
                    community == last.args[1][row.CommunityID]
                    size      == Cardinality(community)
                    inside    == Cardinality(EdgesInside(undirected, community))
                IN  /\ row.Size = size
                    /\ size >= 2 =>
                           row.InternalDensity = Frac(2 * inside, size * (size - 1))
                    /\ size < 2 => row.InternalDensity = Frac(0, 1)
                    /\ size = 1 => row.AvgClustering = Frac(0, 1)

\* The single user A with a self-relationship, one internal edge and
\* density 0, beside the community B - C - D with two of three edges.
C25_Witness ==
    /\ last.op = "get_community_metrics"
    /\ last.args = <<(<<{"A"}, {}, {"B", "C", "D"}>>)>>
    /\ ~last.raised
    /\ <<"A", "A">> \in Edges(graph)
    /\ last.ret.val[1].InternalEdges = 1
    /\ last.ret.val[1].InternalDensity = Frac(0, 1)
    /\ last.ret.val[2].InternalDensity = Frac(2, 3)

\* C26: in the rows of community_metrics the external connections of a
\* community are the pairs of a member and a user outside the community
\* that are adjacent in the undirected projection, a user outside counted
\* once for every member it is adjacent to and a pair with edges in both
\* directions counted once; the cohesion is internal edges over internal
\* edges plus external connections, and 0 when that sum is 0.
C26_ExternalConnectionsAndCohesion ==
    (last.op = "get_community_metrics" /\ ~last.raised) =>
        LET undirected == ToUndirected(graph)
        IN  \A j \in 1..Len(last.ret.val) :
                LET row       == last.ret.val[j]
                    community == last.args[1][row.CommunityID]
                    outside   == Nodes(graph) \ community
                    crossing  == {pr \in community \X outside :
                                     {pr[1], pr[2]} \in UndirectedEdges(undirected)}
                    total     == row.InternalEdges + row.ExternalConnections
                IN  /\ row.ExternalConnections = Cardinality(crossing)
                    /\ row.InternalEdges = Cardinality(EdgesInside(undirected, community))
                    /\ total > 0 => row.Cohesion = Frac(row.InternalEdges, total)
                    /\ total = 0 => row.Cohesion = Frac(0, 1)

\* The community {A, B} with A and B related in both directions and both
\* related to C outside: one internal edge, two external connections.
C26_Witness ==
    /\ last.op = "get_community_metrics"
    /\ last.args = <<(<<{}, {"A", "B"}, {}, {"C"}>>)>>
    /\ ~last.raised
    /\ Edges(graph) = {<<"A", "B">>, <<"B", "A">>, <<"B", "C">>, <<"A", "C">>}
    /\ last.ret.val[1].InternalEdges = 1
    /\ last.ret.val[1].ExternalConnections = 2
    /\ last.ret.val[1].Cohesion = Frac(1, 3)

\* C27: community_metrics of a list of communities of users does not fail
\* and gives one row for every community that is not empty, in the order
\* of the list, and none for an empty one; the Community ID of a row is the
\* position, from 1, of its community in the list with the empty ones
\* counted, so the IDs increase strictly and skip the positions of the
\* empty communities.
C27_RowsFollowInputOrder ==
    (/\ last.op = "get_community_metrics"
     /\ \A i \in 1..Len(last.args[1]) : last.args[1][i] \subseteq Nodes(graph)) =>
        LET communities == last.args[1]
            rows        == last.ret.val
            kept        == {i \in 1..Len(communities) : communities[i] # {}}
        IN  /\ ~last.raised
            /\ Len(rows) = Cardinality(kept)
            /\ {rows[j].CommunityID : j \in 1..Len(rows)} = kept
            /\ \A j \in 1..(Len(rows) - 1) :
                   rows[j].CommunityID < rows[j + 1].CommunityID
            /\ \A j \in 1..Len(rows) :
                   rows[j].Size = Cardinality(communities[rows[j].CommunityID])

\* Four communities, the first and the third empty: two rows, numbered 2
\* and 4.
C27_Witness ==
    /\ last.op = "get_community_metrics"
    /\ last.args = <<(<<{}, {"A", "B"}, {}, {"C"}>>)>>
    /\ ~last.raised
    /\ Len(last.ret.val) = 2
    /\ last.ret.val[1].CommunityID = 2
    /\ last.ret.val[2].CommunityID = 4

\* The list of communities splits the users of G: no community is empty,
\* no two share a user, every user is in one.
SplitsUsers(G, communities) ==
    /\ \A i \in 1..Len(communities) : communities[i] # {}
    /\ \A i, j \in 1..Len(communities) :
          i # j => communities[i] \cap communities[j] = {}
    /\ UNION {communities[i] : i \in 1..Len(communities)} = Nodes(G)

\* C30: for a list of communities that splits the users into non-empty
\* communities, as the results of detect_communities do, the rows of
\* community_metrics account for every edge of the undirected projection
\* once: the Internal Edges of all rows plus half of the External
\* Connections of all rows are the number of edges of the projection, and
\* the sum of the External Connections is even.
C30_RowsAccountForEveryEdge ==
    (/\ last.op = "get_community_metrics"
     /\ SplitsUsers(graph, last.args[1])) =>
        LET rows     == last.ret.val
            internal == IntSum([j \in 1..Len(rows) |-> rows[j].InternalEdges], 1..Len(rows))
            external == IntSum([j \in 1..Len(rows) |-> rows[j].ExternalConnections],
                               1..Len(rows))
        IN  /\ ~last.raised
            /\ Len(rows) = Len(last.args[1])
            /\ external % 2 = 0
            /\ internal + (external \div 2) =
                   Cardinality(UndirectedEdges(ToUndirected(graph)))

\* Two communities of two users, a self-relationship inside the first and
\* two relationships crossing: 2 + 1 internal edges, 2 + 2 external
\* connections, five edges.
C30_Witness ==
    /\ last.op = "get_community_metrics"
    /\ last.args = <<(<<{"A", "B"}, {"C", "D"}>>)>>
    /\ ~last.raised
    /\ Edges(graph) = {<<"A", "A">>, <<"A", "B">>, <<"B", "C">>, <<"A", "C">>, <<"C", "D">>}
    /\ last.ret.val[1].InternalEdges = 2
    /\ last.ret.val[1].ExternalConnections = 2
    /\ last.ret.val[2].InternalEdges = 1
    /\ last.ret.val[2].ExternalConnections = 2

====
